---------------------------- MODULE Spec2Model ----------------------------
(***************************************************************************)
(* The PIR-to-RIR lowering of rir (pir_2_rir.cpp): toCSSA, the SSAAllocator *)
(* (computeLiveness, computeStackAllocation, computeAllocation, verify),    *)
(* the block emitter of Pir2Rir::compileCode and the label patching of      *)
(* FunctionWriter::writeCode, run on a bounded family of PIR codes.         *)
(*                                                                         *)
(* A code is [bbs, ins]: bbs[b] = [instrs, next0, next1] for the block with *)
(* id b (block 1 is code->entry, successor 0 is a null pointer), ins[i] =   *)
(* [tag, args, inp] for instruction i (inp: the input blocks of a phi).     *)
(* A value is an instruction id (>= 1) or a value that is no instruction    *)
(* (Nil, Missing).  Positions inside a block count from 0 as in the source. *)
(***************************************************************************)
EXTENDS Integers, Sequences, FiniteSets, TLC

\* ------------------------------------------------------------------ bounds
\* Longest body (instructions before the Return) of a one-block input code.
MaxBody == 3

\* ------------------------------------------------------------- IR: values
NullBB == 0
Nil == 0
Missing == -1
StaticEnv == -2

I(tag, args) == [tag |-> tag, args |-> args, inp |-> <<>>]
PhiOf(inp, args) == [tag |-> "Phi", args |-> args, inp |-> inp]
BBOf(instrs, n0, n1) == [instrs |-> instrs, next0 |-> n0, next1 |-> n1]

IsInstruction(v) == v >= 1
VoidTags == {"Return", "Branch", "StVar"}
IsVoid(ins, i) == ins[i].tag \in VoidTags
IsPhi(ins, i) == ins[i].tag = "Phi"

Range(s) == {s[k] : k \in DOMAIN s}
BBIds(code) == DOMAIN code.bbs
Size(code, b) == Len(code.bbs[b].instrs)
isEmpty(code, b) == Size(code, b) = 0
isJmp(code, b) == code.bbs[b].next0 # NullBB /\ code.bbs[b].next1 = NullBB

\* y, after x has been evaluated.  TLC evaluates the argument of an operator
\* when it is first used; a loop written as a recursion evaluates its state
\* at every turn with this, not as one nested expression at the end.
Strict(x, y) == IF x = x THEN y ELSE y

InsertAt(s, k, x) == SubSeq(s, 1, k - 1) \o <<x>> \o SubSeq(s, k, Len(s))

\* The block that holds instruction i (Instruction::bb()).
BBofInstr(code, i) == CHOOSE b \in BBIds(code) : i \in Range(code.bbs[b].instrs)
\* The index (from 1) of instruction i in its block.
IndexIn(code, b, i) == CHOOSE k \in DOMAIN code.bbs[b].instrs : code.bbs[b].instrs[k] = i

\* ------------------------------------------------------- CFG and visitors
Succs(code, b) == {code.bbs[b].next0, code.bbs[b].next1} \ {NullBB}

RECURSIVE BFSFrom(_, _, _)
BFSFrom(code, queue, seen) ==
    IF queue = <<>> THEN <<>>
    ELSE LET b == Head(queue)
             n0 == code.bbs[b].next0
             n1 == code.bbs[b].next1
             q0 == IF n0 # NullBB /\ n0 \notin seen THEN <<n0>> ELSE <<>>
             s0 == seen \cup Range(q0)
             q1 == IF n1 # NullBB /\ n1 \notin s0 THEN <<n1>> ELSE <<>>
         IN <<b>> \o BFSFrom(code, Tail(queue) \o q0 \o q1, s0 \cup Range(q1))

\* BreadthFirstVisitor::run(start, f): the blocks in the order f is applied.
BreadthFirst(code, start) == BFSFrom(code, <<start>>, {start})
\* Visitor::run(code->entry, f).
VisitOrder(code) == BreadthFirst(code, 1)

RECURSIVE ReachAvoiding(_, _, _)
ReachAvoiding(code, set, avoid) ==
    LET more == (UNION {Succs(code, b) : b \in set}) \ (set \cup avoid)
    IN IF more = {} THEN set ELSE ReachAvoiding(code, set \cup more, avoid)

\* Blocks reachable from b by one edge or more.
After(code, b) == ReachAvoiding(code, Succs(code, b), {})
\* CFG::isPredecessor(a, b): a is a transitive predecessor of b.
isPredecessor(code, a, b) == b \in After(code, a)
\* CFG::immediatePredecessors(b), in the order the visitor records them.
immediatePredecessors(code, b) ==
    SelectSeq(VisitOrder(code), LAMBDA p : b \in Succs(code, p))
\* CFG::exits().
exits(code) == {b \in Range(VisitOrder(code)) : Succs(code, b) = {}}
\* DominanceGraph: d dominates b.
Dominates(code, d, b) ==
    d = b \/ (d # 1 /\ b \notin ReachAvoiding(code, {1}, {d})) \/ d = 1

\* ------------------------------------------------------------- IR: uses
\* The uses of value v: the pairs <<instruction, argument index>>.
UsesOf(code, v) ==
    UNION {{<<i, k>> : k \in {j \in DOMAIN code.ins[i].args : code.ins[i].args[j] = v}} :
           i \in DOMAIN code.ins}
hasSingleUse(code, i) == Cardinality(UsesOf(code, i)) = 1

\* --------------------------------------------------------- well-formed PIR
hasEnv(ins, i) == ins[i].tag \in {"StVar", "LdVar"}
AllInstrs(code) == UNION {Range(code.bbs[b].instrs) : b \in BBIds(code)}

\* The definition of value v reaches position k (index from 1) of block b.
DefReaches(code, v, b, k) ==
    LET d == BBofInstr(code, v)
    IN IF d = b THEN IndexIn(code, b, v) < k ELSE Dominates(code, d, b)

WellFormedBB(code, b) ==
    LET s == code.bbs[b].instrs
        n0 == code.bbs[b].next0
        n1 == code.bbs[b].next1
        lastTag == IF s = <<>> THEN "none" ELSE code.ins[s[Len(s)]].tag
    IN /\ n1 # NullBB => (n0 # NullBB /\ n0 # n1 /\ lastTag = "Branch")
       /\ n0 = NullBB => (n1 = NullBB /\ lastTag = "Return")
       /\ isJmp(code, b) => lastTag \notin {"Branch", "Return"}
       /\ \A k \in 1..(Len(s) - 1) : code.ins[s[k]].tag \notin {"Branch", "Return"}
       /\ \A k \in 2..Len(s) : IsPhi(code.ins, s[k]) => IsPhi(code.ins, s[k - 1])

WellFormedInstr(code, i) ==
    LET b == BBofInstr(code, i)
        k == IndexIn(code, b, i)
        a == code.ins[i].args
    IN IF IsPhi(code.ins, i)
       THEN /\ Len(a) = Len(code.ins[i].inp)
            /\ Range(code.ins[i].inp) = Range(immediatePredecessors(code, b))
            /\ Len(a) = Cardinality(Range(code.ins[i].inp))
            /\ \A j \in DOMAIN a :
                  /\ IsInstruction(a[j]) /\ a[j] \in AllInstrs(code)
                  /\ ~IsVoid(code.ins, a[j])
                  /\ DefReaches(code, a[j], code.ins[i].inp[j],
                                Size(code, code.ins[i].inp[j]) + 1)
       ELSE /\ code.ins[i].inp = <<>>
            /\ \A j \in DOMAIN a :
                  IF IsInstruction(a[j])
                  THEN /\ a[j] \in AllInstrs(code)
                       /\ ~IsVoid(code.ins, a[j])
                       /\ DefReaches(code, a[j], b, k)
                  ELSE \/ a[j] = Nil /\ ~hasEnv(code.ins, i)
                       \/ a[j] = StaticEnv /\ hasEnv(code.ins, i) /\ j = Len(a)

WellFormed(code) ==
    /\ BBIds(code) = Range(VisitOrder(code))
    /\ \A b \in BBIds(code) : exits(code) \cap ({b} \cup After(code, b)) # {}
    /\ AllInstrs(code) = DOMAIN code.ins
    /\ \A b, c \in BBIds(code) : \A k \in DOMAIN code.bbs[b].instrs :
          \A l \in DOMAIN code.bbs[c].instrs :
             code.bbs[b].instrs[k] = code.bbs[c].instrs[l] => (b = c /\ k = l)
    /\ \A b \in BBIds(code) : WellFormedBB(code, b)
    /\ \A i \in DOMAIN code.ins : WellFormedInstr(code, i)

\* ------------------------------------------------------------ input codes
\* One-block codes: a body of at most MaxBody instructions, each reading
\* earlier values, then a Return of one of them or of Nil.
ValuesOf(body) == {k \in DOMAIN body : body[k].tag \notin VoidTags}
NextInstrs(body) ==
    {I("LdArg", <<>>)}
    \cup {I("Inc", <<a>>) : a \in ValuesOf(body)}
    \cup {I("StVar", <<a, StaticEnv>>) : a \in ValuesOf(body)}
    \cup {I("Add", <<a, b>>) : a \in ValuesOf(body), b \in ValuesOf(body)}

RECURSIVE BodiesOfLen(_)
BodiesOfLen(n) ==
    IF n = 0 THEN {<<>>}
    ELSE UNION {{Append(s, i) : i \in NextInstrs(s)} : s \in BodiesOfLen(n - 1)}

StraightCodes ==
    UNION {UNION {{[ins |-> Append(body, I("Return", <<r>>)),
                    bbs |-> <<BBOf([k \in 1..(Len(body) + 1) |-> k], NullBB, NullBB)>>] :
                   r \in ValuesOf(body) \cup {Nil}} :
                  body \in BodiesOfLen(n)} : n \in 0..MaxBody}

\* Diamond: the entry branches to two arms that merge in a block with phis.
Diamond1(v1, v2, y, r) ==
    [ins |-> <<I("LdArg", <<>>), I("LdArg", <<>>), I("Branch", <<1>>),
               I("Inc", <<2>>), I("Inc", <<2>>),
               PhiOf(<<2, 3>>, <<v1, v2>>), I("Add", <<6, y>>), I("Return", <<r>>)>>,
     bbs |-> <<BBOf(<<1, 2, 3>>, 2, 3), BBOf(<<4>>, 4, NullBB), BBOf(<<5>>, 4, NullBB),
               BBOf(<<6, 7, 8>>, NullBB, NullBB)>>]
Diamond2(v1, v2, w1, w2, x, y) ==
    [ins |-> <<I("LdArg", <<>>), I("LdArg", <<>>), I("Branch", <<1>>),
               I("Inc", <<2>>), I("Inc", <<2>>),
               PhiOf(<<2, 3>>, <<v1, v2>>), PhiOf(<<3, 2>>, <<w2, w1>>),
               I("Add", <<x, y>>), I("Return", <<8>>)>>,
     bbs |-> <<BBOf(<<1, 2, 3>>, 2, 3), BBOf(<<4>>, 4, NullBB), BBOf(<<5>>, 4, NullBB),
               BBOf(<<6, 7, 8, 9>>, NullBB, NullBB)>>]
\* Diamond whose arms load one constant each, joined by a phi that is returned.
LdConst(k) == [tag |-> "LdConst", args |-> <<>>, inp |-> <<>>, c |-> k]
DiamondConst(k1, k2) ==
    [ins |-> <<I("LdArg", <<>>), I("Branch", <<1>>), LdConst(k1), LdConst(k2),
               PhiOf(<<2, 3>>, <<3, 4>>), I("Return", <<5>>)>>,
     bbs |-> <<BBOf(<<1, 2>>, 2, 3), BBOf(<<3>>, 4, NullBB), BBOf(<<4>>, 4, NullBB),
               BBOf(<<5, 6>>, NullBB, NullBB)>>]
\* Diamond without phi; the arms may be empty blocks.
DiamondNoPhi(arm1, arm2, r) ==
    [ins |-> <<I("LdArg", <<>>), I("Branch", <<1>>), I("Return", <<r>>)>>
             \o (IF arm1 THEN <<I("Inc", <<1>>)>> ELSE <<>>)
             \o (IF arm2 THEN <<I("StVar", <<1, StaticEnv>>)>> ELSE <<>>),
     bbs |-> <<BBOf(<<1, 2>>, 2, 3),
               BBOf(IF arm1 THEN <<4>> ELSE <<>>, 4, NullBB),
               BBOf(IF arm2 THEN <<IF arm1 THEN 5 ELSE 4>> ELSE <<>>, 4, NullBB),
               BBOf(<<3>>, NullBB, NullBB)>>]
\* Triangle: one arm is the edge from the branching entry to the merge block.
Triangle(n0, n1, v, w, r) ==
    [ins |-> <<I("LdArg", <<>>), I("LdArg", <<>>), I("Branch", <<1>>),
               I("Inc", <<2>>), PhiOf(<<1, 2>>, <<v, w>>), I("Return", <<r>>)>>,
     bbs |-> <<BBOf(<<1, 2, 3>>, n0, n1), BBOf(<<4>>, 3, NullBB),
               BBOf(<<5, 6>>, NullBB, NullBB)>>]
\* A block that loops back to itself, with one induction phi.
SelfLoop1(n0, n1, v, r) ==
    [ins |-> <<I("LdArg", <<>>), I("LdArg", <<>>),
               PhiOf(<<1, 2>>, <<1, v>>), I("Inc", <<3>>), I("Branch", <<2>>),
               I("Return", <<r>>)>>,
     bbs |-> <<BBOf(<<1, 2>>, 2, NullBB), BBOf(<<3, 4, 5>>, n0, n1),
               BBOf(<<6>>, NullBB, NullBB)>>]
\* A self-loop with two phis; w = 3 makes the second read the first (swap).
SelfLoop2(n0, n1, v, w, r) ==
    [ins |-> <<I("LdArg", <<>>), I("LdArg", <<>>),
               PhiOf(<<1, 2>>, <<1, v>>), PhiOf(<<2, 1>>, <<w, 2>>),
               I("Add", <<3, 4>>), I("Branch", <<5>>), I("Return", <<r>>)>>,
     bbs |-> <<BBOf(<<1, 2>>, 2, NullBB), BBOf(<<3, 4, 5, 6>>, n0, n1),
               BBOf(<<7>>, NullBB, NullBB)>>]
\* A loop whose header branches to a latch block and to the exit.
LatchLoop(n0, n1, v, r) ==
    [ins |-> <<I("LdArg", <<>>), I("LdArg", <<>>),
               PhiOf(<<1, 3>>, <<1, v>>), I("Branch", <<2>>),
               I("Inc", <<3>>), I("Return", <<r>>)>>,
     bbs |-> <<BBOf(<<1, 2>>, 2, NullBB), BBOf(<<3, 4>>, n0, n1),
               BBOf(<<5>>, 2, NullBB), BBOf(<<6>>, NullBB, NullBB)>>]
\* The same loop with a latch that uses one of its values twice.
LatchLoopReuse(n0, n1, r) ==
    [ins |-> <<I("LdArg", <<>>), I("LdArg", <<>>),
               PhiOf(<<1, 3>>, <<1, 6>>), I("Branch", <<2>>),
               I("Inc", <<3>>), I("Add", <<5, 5>>), I("Return", <<r>>)>>,
     bbs |-> <<BBOf(<<1, 2>>, 2, NullBB), BBOf(<<3, 4>>, n0, n1),
               BBOf(<<5, 6>>, 2, NullBB), BBOf(<<7>>, NullBB, NullBB)>>]
\* A diamond whose merge block branches into a triangle: two merge blocks.
TwoMerges(n0, n1, t, a) ==
    [ins |-> <<I("LdArg", <<>>), I("LdArg", <<>>), I("Branch", <<1>>),
               I("Inc", <<2>>), I("Inc", <<2>>),
               PhiOf(<<2, 3>>, <<4, 5>>), I("Branch", <<t>>), I("Inc", <<6>>),
               PhiOf(<<4, 5>>, <<a, 8>>), I("Return", <<9>>)>>,
     bbs |-> <<BBOf(<<1, 2, 3>>, 2, 3), BBOf(<<4>>, 4, NullBB), BBOf(<<5>>, 4, NullBB),
               BBOf(<<6, 7>>, n0, n1), BBOf(<<8>>, 6, NullBB),
               BBOf(<<9, 10>>, NullBB, NullBB)>>]
\* A diamond with two-instruction arms and two phis at the start of the merge
\* block: the second reads the first instructions of the arms, the first
\* reads the last of arm 3 and v1 (5 is the last instruction of arm 2).
DiamondTwoPhis(v1) ==
    [ins |-> <<I("LdArg", <<>>), I("LdArg", <<>>), I("Branch", <<1>>),
               I("Inc", <<2>>), I("Inc", <<2>>), I("Inc", <<2>>), I("Inc", <<2>>),
               PhiOf(<<2, 3>>, <<v1, 7>>), PhiOf(<<2, 3>>, <<4, 6>>),
               I("Add", <<8, 9>>), I("Return", <<10>>)>>,
     bbs |-> <<BBOf(<<1, 2, 3>>, 2, 3), BBOf(<<4, 5>>, 4, NullBB), BBOf(<<6, 7>>, 4, NullBB),
               BBOf(<<8, 9, 10, 11>>, NullBB, NullBB)>>]
\* One block where the simulated deque holds [xxx, A, B, C] = [1, 2, 3, 4]
\* when an instruction with the arguments [A, C] is reached.
DequeExample(r) ==
    [ins |-> <<I("LdArg", <<>>), I("LdArg", <<>>), I("LdArg", <<>>), I("LdArg", <<>>),
               I("Add", <<2, 4>>), I("Add", <<1, 5>>), I("StVar", <<3, StaticEnv>>),
               I("Return", <<r>>)>>,
     bbs |-> <<BBOf(<<1, 2, 3, 4, 5, 6, 7, 8>>, NullBB, NullBB)>>]
\* A chain through empty blocks.
Chain(r) ==
    [ins |-> <<I("LdArg", <<>>), I("Return", <<r>>)>>,
     bbs |-> <<BBOf(<<>>, 2, NullBB), BBOf(<<1>>, 3, NullBB), BBOf(<<>>, 4, NullBB),
               BBOf(<<2>>, NullBB, NullBB)>>]

Candidates ==
    StraightCodes
    \cup {Diamond1(v1, v2, y, r) : v1 \in {2, 4}, v2 \in {2, 5}, y \in {2, 6}, r \in {6, 7}}
    \cup {Diamond2(v1, 5, 2, w2, x, y) : v1 \in {2, 4}, w2 \in {2, 5}, x \in {6, 7}, y \in {6, 7}}
    \cup {DiamondNoPhi(a1, a2, r) : a1 \in BOOLEAN, a2 \in BOOLEAN, r \in {1, Nil}}
    \cup {Triangle(n[1], n[2], v, w, r) :
            n \in {<<2, 3>>, <<3, 2>>}, v \in {1, 2}, w \in {2, 4}, r \in {5, 2}}
    \cup {SelfLoop1(n[1], n[2], v, r) :
            n \in {<<2, 3>>, <<3, 2>>}, v \in {3, 4, 2}, r \in {3, 4, 2}}
    \cup {SelfLoop2(n[1], n[2], v, w, r) :
            n \in {<<2, 3>>, <<3, 2>>}, v \in {4, 5}, w \in {3, 5}, r \in {3, 5}}
    \cup {LatchLoop(n[1], n[2], v, r) :
            n \in {<<3, 4>>, <<4, 3>>}, v \in {5, 3}, r \in {3, 2}}
    \cup {TwoMerges(n[1], n[2], t, a) : n \in {<<5, 6>>, <<6, 5>>}, t \in {1, 6}, a \in {6, 2}}
    \cup {Chain(r) : r \in {1, Nil}}
    \cup {DiamondConst(k[1], k[2]) : k \in {<<1, 2>>, <<2, 2>>}}
    \cup {LatchLoopReuse(n[1], n[2], r) : n \in {<<3, 4>>, <<4, 3>>}, r \in {3, 2}}
    \cup {DiamondTwoPhis(v1) : v1 \in {5, 2}}
    \cup {DequeExample(r) : r \in {6, Nil}}

InputCodes == {c \in Candidates : WellFormed(c)}

\* ------------------------------------------------------------------ toCSSA
\* Where toCSSA inserts the copy of a phi input in predecessor pred, as an
\* index from 1: pred->end() for a jump, pred->end() - 1 otherwise.
CopyPosAlwaysEnd(c, pred) == Size(c, pred) + 1
CopyPos(c, pred) == IF isJmp(c, pred) THEN Size(c, pred) + 1 ELSE Size(c, pred)

\* The inner loop over the inputs of a phi, from input i on.
RECURSIVE InsertInputCopies(_, _, _)
InsertInputCopies(c, phi, i) ==
    IF i > Len(c.ins[phi].args) THEN c
    ELSE LET pred == c.ins[phi].inp[i]
             iav == c.ins[phi].args[i]
             copy == Len(c.ins) + 1
             c1 == [ins |-> [Append(c.ins, I("PirCopy", <<iav>>))
                                EXCEPT ![phi].args[i] = copy],
                    bbs |-> [c.bbs EXCEPT ![pred].instrs =
                                              InsertAt(@, CopyPos(c, pred), copy)]]
         IN Strict(c1, InsertInputCopies(c1, phi, i + 1))

\* Instruction::replaceUsesWith(val): every argument equal to old, in the
\* blocks reachable from old's block, becomes val.
replaceUsesWith(c, old, val) ==
    LET b == BBofInstr(c, old)
        visited == UNION {Range(c.bbs[x].instrs) : x \in Range(BreadthFirst(c, b))}
    IN [c EXCEPT !.ins = [i \in DOMAIN c.ins |->
          IF i \in visited
          THEN [c.ins[i] EXCEPT !.args = [k \in DOMAIN c.ins[i].args |->
                   IF c.ins[i].args[k] = old THEN val ELSE c.ins[i].args[k]]]
          ELSE c.ins[i]]]

\* The copy of the phi itself, inserted right after it.
InsertPhiCopyDropped(c, b, k) == c
InsertPhiCopyKeepingUses(c, b, k) ==
    [ins |-> Append(c.ins, I("PirCopy", <<c.bbs[b].instrs[k]>>)),
     bbs |-> [c.bbs EXCEPT ![b].instrs = InsertAt(@, k + 1, Len(c.ins) + 1)]]
InsertPhiCopy(c, b, k) ==
    LET phi == c.bbs[b].instrs[k]
        phiCopy == Len(c.ins) + 1
        c1 == replaceUsesWith(c, phi, phiCopy)
    IN [ins |-> Append(c1.ins, I("PirCopy", <<phi>>)),
        bbs |-> [c1.bbs EXCEPT ![b].instrs = InsertAt(@, k + 1, phiCopy)]]

\* The loop over the instructions of block b, the iterator at index k.
RECURSIVE CSSABlock(_, _, _)
CSSABlock(c, b, k) ==
    IF k > Size(c, b) THEN c
    ELSE IF IsPhi(c.ins, c.bbs[b].instrs[k])
         THEN LET c1 == InsertInputCopies(c, c.bbs[b].instrs[k], 1)
                  c2 == InsertPhiCopy(c1, b, k)
              IN Strict(c1, Strict(c2, CSSABlock(c2, b, k + 2)))
         ELSE CSSABlock(c, b, k + 1)

RECURSIVE CSSABlocks(_, _)
CSSABlocks(c, order) ==
    IF order = <<>> THEN c
    ELSE LET c1 == CSSABlock(c, Head(order), 1)
         IN Strict(c1, CSSABlocks(c1, Tail(order)))

toCSSA(c) == CSSABlocks(c, BreadthFirst(c, 1))

Phis(c) == {i \in DOMAIN c.ins : IsPhi(c.ins, i)}
\* toCSSA inserts into the block it is iterating over when a phi has its own
\* block as an input block: the insertion may reallocate the instruction
\* vector and leave the loop's iterator dangling.
InsertsUnderIterator(c) ==
    \E p \in Phis(c) : BBofInstr(c, p) \in Range(c.ins[p].inp)

\* ---------------------------------------------- SSAAllocator: liveness
\* (unsigned)-1, the initial begin and end of a BBLiveness; it stands for the
\* largest unsigned value.
UnsignedMax == 2147483647
BBLiveness == [live |-> FALSE, begin |-> UnsignedMax, end |-> UnsignedMax]

\* livenessInterval[v].resize(bbsSize) on the first sight of v.
Seen(c, li, v) ==
    IF v \in DOMAIN li THEN li
    ELSE (v :> [b \in BBIds(c) |-> BBLiveness]) @@ li

\* Liveness::interfere
rangesOverlapStrictly(mine, their) ==
    \/ mine.begin = their.begin
    \/ (mine.begin < their.begin /\ mine.end > their.begin)
    \/ (mine.begin > their.begin /\ their.end > mine.begin)
rangesOverlap(mine, their) ==
    \/ mine.begin = their.begin
    \/ (mine.begin < their.begin /\ mine.end >= their.begin)
    \/ (mine.begin > their.begin /\ their.end >= mine.begin)
interfere(mine, other) ==
    \E i \in DOMAIN mine :
        mine[i].live /\ other[i].live /\ rangesOverlap(mine[i], other[i])

\* The arguments of the instruction at position pos of bb, from argument j
\* on: markIfNotSeen, and the accumulation of those it newly marks.
\* w = [li, acc, phiIn]: the intervals, accumulated, accumulatedPhiInput.
RECURSIVE MarkArgs(_, _, _, _, _, _)
MarkArgs(c, bb, i, pos, j, w) ==
    IF j > Len(c.ins[i].args) THEN w
    ELSE LET v == c.ins[i].args[j]
             li1 == Seen(c, w.li, v)
             new == ~li1[v][bb].live
             li2 == IF new
                    THEN [li1 EXCEPT ![v][bb].live = TRUE, ![v][bb].end = pos]
                    ELSE li1
             in == IF IsPhi(c.ins, i) THEN c.ins[i].inp[j] ELSE NullBB
             w1 == [li |-> li2,
                    acc |-> IF new /\ ~IsPhi(c.ins, i) THEN w.acc \cup {v} ELSE w.acc,
                    phiIn |-> IF new /\ IsPhi(c.ins, i)
                              THEN w.phiIn \cup {<<in, v>>} ELSE w.phiIn]
         IN Strict(w1, MarkArgs(c, bb, i, pos, j + 1, w1))

\* "Run BB in reverse": the instruction at index k (position k - 1) and those
\* before it.
RECURSIVE RunReverse(_, _, _, _)
RunReverseKeepingBegin(c, bb, k, w) ==
    IF k = 0 THEN w
    ELSE LET w1 == MarkArgs(c, bb, c.bbs[bb].instrs[k], k - 1, 1, w)
         IN Strict(w1, RunReverse(c, bb, k - 1, w1))
RunReverse(c, bb, k, w) ==
    IF k = 0 THEN w
    ELSE LET i == c.bbs[bb].instrs[k]
             w1 == MarkArgs(c, bb, i, k - 1, 1, w)
             w2 == IF i \in w1.acc
                   THEN [w1 EXCEPT !.li[i][bb].begin = k - 1, !.acc = @ \ {i}]
                   ELSE w1
         IN Strict(w2, RunReverse(c, bb, k - 1, w2))

\* The merge lambda: s = [lae, todo].
mergeAndRevisit(s, bb, live) ==
    [lae |-> [s.lae EXCEPT ![bb] = @ \cup live], todo |-> s.todo \cup {bb}]
mergeReplacing(s, bb, live) ==
    IF live \subseteq s.lae[bb] THEN s
    ELSE [lae |-> [s.lae EXCEPT ![bb] = live], todo |-> s.todo \cup {bb}]
merge(s, bb, live) ==
    IF live \subseteq s.lae[bb] THEN s
    ELSE [lae |-> [s.lae EXCEPT ![bb] = @ \cup live], todo |-> s.todo \cup {bb}]

\* The mergePhiInp lambda, over the input blocks not yet merged.
RECURSIVE mergePhiInp(_, _, _, _, _)
mergePhiInpOwnBlockOnly(c, s, bb, phiIn, inBBs) ==
    IF bb \in inBBs THEN merge(s, bb, {p[2] : p \in {q \in phiIn : q[1] = bb}}) ELSE s
mergePhiInp(c, s, bb, phiIn, inBBs) ==
    IF inBBs = {} THEN s
    ELSE LET inBB == CHOOSE x \in inBBs : TRUE
             inLive == {p[2] : p \in {q \in phiIn : q[1] = inBB}}
             s1 == IF bb = inBB \/ isPredecessor(c, inBB, bb)
                   THEN merge(s, bb, inLive) ELSE s
         IN Strict(s1, mergePhiInp(c, s1, bb, phiIn, inBBs \ {inBB}))

\* The loop over the immediate predecessors of the processed block.
RECURSIVE MergeIntoPreds(_, _, _, _, _)
MergeIntoPreds(c, s, pres, acc, phiIn) ==
    IF pres = <<>> THEN s
    ELSE LET pre == Head(pres)
             inBBs == {p[1] : p \in phiIn}
             s1 == IF pre \notin DOMAIN s.lae
                   THEN LET first == [lae |-> [x \in DOMAIN s.lae \cup {pre} |->
                                                 IF x = pre THEN acc ELSE s.lae[x]],
                                      todo |-> s.todo]
                            merged == mergePhiInp(c, first, pre, phiIn, inBBs)
                        IN [merged EXCEPT !.todo = @ \cup {pre}]
                   ELSE mergePhiInp(c, merge(s, pre, acc), pre, phiIn, inBBs)
         IN Strict(s1, MergeIntoPreds(c, s1, Tail(pres), acc, phiIn))

\* One iteration of the worklist loop of computeLiveness, for block bb taken
\* from todo.  l = [li, lae, todo].
LivenessIteration(c, l, bb) ==
    LET lae0 == IF bb \in DOMAIN l.lae THEN l.lae
                ELSE [x \in DOMAIN l.lae \cup {bb} |-> IF x = bb THEN {} ELSE l.lae[x]]
        grown == {v \in lae0[bb] :
                     ~l.li[v][bb].live \/ l.li[v][bb].end < Size(c, bb)}
        li0 == [v \in DOMAIN l.li |->
                  IF v \in grown
                  THEN [l.li[v] EXCEPT ![bb].live = TRUE, ![bb].end = Size(c, bb)]
                  ELSE l.li[v]]
        w == RunReverse(c, bb, Size(c, bb), [li |-> li0, acc |-> grown, phiIn |-> {}])
        entry == w.acc \cup {p[2] : p \in w.phiIn}
        li1 == [v \in DOMAIN w.li |->
                  IF v \in entry THEN [w.li[v] EXCEPT ![bb].begin = 0] ELSE w.li[v]]
        s == MergeIntoPreds(c, [lae |-> lae0, todo |-> l.todo \ {bb}],
                            immediatePredecessors(c, bb), w.acc, w.phiIn)
    IN [li |-> li1, lae |-> s.lae, todo |-> s.todo]

\* The transitive closure of a relation on blocks.
RECURSIVE Closure(_)
Closure(R) ==
    LET step == {<<pq[1][1], pq[2][2]>> : pq \in {x \in R \X R : x[1][2] = x[2][1]}}
    IN IF step \subseteq R THEN R ELSE Closure(R \cup step)

\* ------------------------------------- SSAAllocator: computeStackAllocation
unassignedSlot == 0
stackSlot == -1

\* allocation[v] = slot
Assign(al, v, slot) == (v :> slot) @@ al
AssignFirstOnly(al, vs, slot) ==
    IF vs = <<>> THEN al ELSE Assign(al, Head(vs), slot)
RECURSIVE AssignAll(_, _, _)
AssignAll(al, vs, slot) ==
    IF vs = <<>> THEN al
    ELSE LET al1 == Assign(al, Head(vs), slot)
         IN Strict(al1, AssignAll(al1, Tail(vs), slot))

\* The test of one phi, the pos-th instruction of bb: every input block
\* falls through to bb and has the input as its pos-th instruction from the end.
argsInAnyOrder(c, bb, phi, pos) == TRUE
argsNeverInRightOrder(c, bb, phi, pos) == FALSE
argsInRightOrder(c, bb, phi, pos) ==
    \A j \in DOMAIN c.ins[phi].args :
        LET in == c.ins[phi].inp[j]
        IN ~(\/ c.bbs[in].next0 # bb
             \/ Size(c, in) < pos
             \/ c.bbs[in].instrs[Size(c, in) + 1 - pos] # c.ins[phi].args[j])

\* The sweep over the leading phis of bb, at instruction pos (from 1).
RECURSIVE StackPhis(_, _, _, _)
StackPhisPastFailure(c, al, bb, pos) ==
    IF pos > Size(c, bb) THEN al
    ELSE LET i == c.bbs[bb].instrs[pos]
         IN IF ~IsPhi(c.ins, i) THEN al
            ELSE IF ~argsInRightOrder(c, bb, i, pos) THEN StackPhis(c, al, bb, pos + 1)
            ELSE LET al1 == Assign(AssignAll(al, c.ins[i].args, stackSlot), i, stackSlot)
                 IN Strict(al1, StackPhis(c, al1, bb, pos + 1))
StackPhis(c, al, bb, pos) ==
    IF pos > Size(c, bb) THEN al
    ELSE LET i == c.bbs[bb].instrs[pos]
         IN IF ~IsPhi(c.ins, i) THEN al
            ELSE IF ~argsInRightOrder(c, bb, i, pos) THEN al
            ELSE LET al1 == Assign(AssignAll(al, c.ins[i].args, stackSlot), i, stackSlot)
                 IN Strict(al1, StackPhis(c, al1, bb, pos + 1))

\* The matching loop of tryLoadingArgsFromStack: the arguments j, j-1, .. 1
\* against the deque below index check (0 is rend).  m = [check, foundAll].
RECURSIVE MatchArgs(_, _, _, _)
MatchArgs(stack, args, j, m) ==
    IF j = 0 THEN m
    ELSE LET below == {k \in 1..m.check : stack[k] = args[j]}
         IN IF below = {}
            THEN MatchArgs(stack, args, j - 1, [check |-> 0, foundAll |-> FALSE])
            ELSE MatchArgs(stack, args, j - 1,
                     [check |-> (CHOOSE k \in below : \A l \in below : l <= k) - 1,
                      foundAll |-> m.foundAll])

\* tryLoadingArgsFromStack(i): t = [al, stack].
tryLoadingArgsMarkingPopped(c, t, i) ==
    LET args == c.ins[i].args
        m == MatchArgs(t.stack, args, Len(args), [check |-> Len(t.stack), foundAll |-> TRUE])
    IN IF Len(args) = 0 \/ Len(t.stack) < Len(args) THEN t
       ELSE IF ~m.foundAll THEN t
       ELSE [al |-> AssignAll(t.al, SubSeq(t.stack, m.check + 1, Len(t.stack)), stackSlot),
             stack |-> SubSeq(t.stack, 1, m.check)]
tryLoadingArgsFromStack(c, t, i) ==
    LET args == c.ins[i].args
        m == MatchArgs(t.stack, args, Len(args), [check |-> Len(t.stack), foundAll |-> TRUE])
    IN IF Len(args) = 0 \/ Len(t.stack) < Len(args) THEN t
       ELSE IF ~m.foundAll THEN t
       ELSE [al |-> AssignAll(t.al, args, stackSlot),
             stack |-> SubSeq(t.stack, 1, m.check)]

\* What is pushed on the simulated deque.
staysOnStackAnyUses(c, al, i) ==
    i \notin DOMAIN al /\ ~IsVoid(c.ins, i) /\ ~IsPhi(c.ins, i)
staysOnStack(c, al, i) ==
    i \notin DOMAIN al /\ ~IsVoid(c.ins, i) /\ ~IsPhi(c.ins, i) /\ hasSingleUse(c, i)

\* "Precolor easy stack load-stores within one BB", from instruction k on.
RECURSIVE StackWindow(_, _, _, _)
StackWindow(c, t, bb, k) ==
    IF k > Size(c, bb) THEN t.al
    ELSE LET i == c.bbs[bb].instrs[k]
             t1 == tryLoadingArgsFromStack(c, t, i)
             t2 == IF staysOnStack(c, t1.al, i)
                   THEN [t1 EXCEPT !.stack = Append(@, i)] ELSE t1
         IN Strict(t2, StackWindow(c, t2, bb, k + 1))

RECURSIVE StackAllocBlocks(_, _, _)
StackAllocBlocks(c, al, order) ==
    IF order = <<>> THEN al
    ELSE LET phis == StackPhis(c, al, Head(order), 1)
             al1 == StackWindow(c, [al |-> phis, stack |-> <<>>], Head(order), 1)
         IN Strict(al1, StackAllocBlocks(c, al1, Tail(order)))

computeStackAllocation(c) == StackAllocBlocks(c, <<>>, VisitOrder(c))

\* ----------------------------------------- SSAAllocator: computeAllocation
reverseAlloc(al, slot) == {v \in DOMAIN al : al[v] = slot}

slotIsAlwaysAvailable(li, al, slot, i) == TRUE
slotIsAvailable(li, al, slot, i) ==
    \A other \in reverseAlloc(al, slot) : ~interfere(li[other], li[i])

\* "Precolor Phi": the first slot free for the phi and for all its inputs.
PhiSlot(c, li, al, p) ==
    LET ok(slot) == /\ slotIsAvailable(li, al, slot, p)
                    /\ \A j \in DOMAIN c.ins[p].args :
                          slotIsAvailable(li, al, slot, c.ins[p].args[j])
    IN CHOOSE slot \in 1..(Cardinality(DOMAIN al) + 1) :
          ok(slot) /\ \A t \in 1..(slot - 1) : ~ok(t)

RECURSIVE PrecolorPhis(_, _, _, _)
PrecolorPhis(c, li, al, instrs) ==
    IF instrs = <<>> THEN al
    ELSE LET p == Head(instrs)
         IN IF ~IsPhi(c.ins, p) \/ p \in DOMAIN al
            THEN PrecolorPhis(c, li, al, Tail(instrs))
            ELSE LET slot == PhiSlot(c, li, al, p)
                     al1 == AssignAll(Assign(al, p, slot), c.ins[p].args, slot)
                 IN Strict(al1, PrecolorPhis(c, li, al1, Tail(instrs)))

\* All instructions, in the order Visitor::run(code->entry, f) applies an
\* instruction action.
RECURSIVE InstrsInOrder(_, _)
InstrsInOrder(c, order) ==
    IF order = <<>> THEN <<>>
    ELSE c.bbs[Head(order)].instrs \o InstrsInOrder(c, Tail(order))

\* findFreeSlot
FreeSlotFresh(li, al, i) == Cardinality(DOMAIN al) + 1
FreeSlot(li, al, i) ==
    CHOOSE slot \in 1..(Cardinality(DOMAIN al) + 1) :
        /\ slotIsAvailable(li, al, slot, i)
        /\ \A t \in 1..(slot - 1) : ~slotIsAvailable(li, al, t, i)

\* The slot of the first argument, the hint of the dominance-order phase.
HintOf(c, al, i) ==
    IF Len(c.ins[i].args) > 0
          /\ IsInstruction(c.ins[i].args[1]) /\ c.ins[i].args[1] \in DOMAIN al
    THEN al[c.ins[i].args[1]]
    ELSE unassignedSlot

RECURSIVE EagerSlots(_, _, _, _)
EagerSlotsTrustingHint(c, li, al, instrs) ==
    IF instrs = <<>> THEN al
    ELSE LET i == Head(instrs)
             hint == HintOf(c, al, i)
         IN IF i \in DOMAIN al \/ i \notin DOMAIN li
            THEN EagerSlots(c, li, al, Tail(instrs))
            ELSE IF hint # unassignedSlot /\ hint # stackSlot
            THEN EagerSlots(c, li, Assign(al, i, hint), Tail(instrs))
            ELSE EagerSlots(c, li, Assign(al, i, FreeSlot(li, al, i)), Tail(instrs))
EagerSlots(c, li, al, instrs) ==
    IF instrs = <<>> THEN al
    ELSE LET i == Head(instrs)
             hint == HintOf(c, al, i)
         IN IF i \in DOMAIN al \/ i \notin DOMAIN li
            THEN EagerSlots(c, li, al, Tail(instrs))
            ELSE IF hint # unassignedSlot /\ hint # stackSlot
                       /\ slotIsAvailable(li, al, hint, i)
            THEN EagerSlots(c, li, Assign(al, i, hint), Tail(instrs))
            ELSE EagerSlots(c, li, Assign(al, i, FreeSlot(li, al, i)), Tail(instrs))

\* The immediate dominator of b (b is not the entry).
StrictDoms(c, b) == {d \in BBIds(c) : d # b /\ Dominates(c, d, b)}
idom(c, b) == CHOOSE d \in StrictDoms(c, b) : \A e \in StrictDoms(c, b) : Dominates(c, e, d)

RECURSIVE SortedSeq(_)
SortedSeq(S) ==
    IF S = {} THEN <<>>
    ELSE LET m == CHOOSE x \in S : \A y \in S : x <= y IN <<m>> \o SortedSeq(S \ {m})

\* DominatorTreeVisitor: the dominator tree in preorder.
RECURSIVE DomPreorder(_, _)
DomPreorder(c, todoBBs) ==
    IF todoBBs = <<>> THEN <<>>
    ELSE LET b == Head(todoBBs)
             kids == SortedSeq({x \in BBIds(c) \ {1} : idom(c, x) = b})
         IN <<b>> \o DomPreorder(c, kids \o Tail(todoBBs))

computeAllocation(c, li, al) ==
    LET phis == PrecolorPhis(c, li, al, InstrsInOrder(c, VisitOrder(c)))
    IN Strict(phis, EagerSlots(c, li, phis, InstrsInOrder(c, DomPreorder(c, <<1>>))))

\* slots()
slotsAsNumberOfValues(al) == Cardinality({v \in DOMAIN al : al[v] # stackSlot})
slots(al) ==
    IF reverseAlloc(al, stackSlot) = DOMAIN al THEN 0
    ELSE CHOOSE m \in {al[v] : v \in DOMAIN al} \ {stackSlot} :
            \A v \in DOMAIN al : al[v] = stackSlot \/ al[v] <= m

\* ------------------------------------------------ SSAAllocator: verify
\* The simulation of one non-phi instruction's arguments, last to first:
\* st = [reg, stack, fails].  A failed check ends the simulation.
RECURSIVE VerifyArgs(_, _, _, _, _)
VerifyArgs(c, al, i, j, st) ==
    IF j = 0 \/ st.fails # {} THEN st
    ELSE LET a == c.ins[i].args[j]
         IN IF ~IsInstruction(a) THEN VerifyArgs(c, al, i, j - 1, st)
            ELSE IF a \notin DOMAIN al
            THEN [st EXCEPT !.fails = {<<"not allocated", i, a>>}]
            ELSE IF al[a] = stackSlot
            THEN IF st.stack = <<>>
                 THEN [st EXCEPT !.fails = {<<"empty stack", i, a>>}]
                 ELSE IF st.stack[Len(st.stack)] # a
                 THEN [st EXCEPT !.fails = {<<"stack has other", i, a>>}]
                 ELSE VerifyArgs(c, al, i, j - 1,
                         [st EXCEPT !.stack = SubSeq(@, 1, Len(@) - 1)])
            ELSE IF al[a] \notin DOMAIN st.reg
            THEN [st EXCEPT !.fails = {<<"slot never written", i, a>>}]
            ELSE IF st.reg[al[a]] # a
            THEN [st EXCEPT !.fails = {<<"slot overridden", i, a>>}]
            ELSE VerifyArgs(c, al, i, j - 1, st)

\* The simulation of a phi: its inputs have its allocation, and a phi on
\* the stack pops one element.
VerifyPhiNoPop(c, al, phi, st) == st
VerifyPhi(c, al, phi, st) ==
    IF phi \notin DOMAIN al
    THEN [st EXCEPT !.fails = {<<"phi not allocated", phi, phi>>}]
    ELSE IF \E j \in DOMAIN c.ins[phi].args :
               LET a == c.ins[phi].args[j]
               IN IsInstruction(a) /\ (a \notin DOMAIN al \/ al[a] # al[phi])
    THEN [st EXCEPT !.fails = {<<"different allocations", phi, phi>>}]
    ELSE IF al[phi] # stackSlot THEN st
    ELSE IF st.stack = <<>>
    THEN [st EXCEPT !.fails = {<<"phi pops empty stack", phi, phi>>}]
    ELSE [st EXCEPT !.stack = SubSeq(@, 1, Len(@) - 1)]

\* "Remember this instruction if it writes to a slot"
WriteResult(al, i, st) ==
    IF i \notin DOMAIN al \/ st.fails # {} THEN st
    ELSE IF al[i] = stackSlot THEN [st EXCEPT !.stack = Append(@, i)]
    ELSE [st EXCEPT !.reg = [s \in DOMAIN st.reg \cup {al[i]} |->
                                IF s = al[i] THEN i ELSE st.reg[s]]]

\* The loop over the instructions of bb, from index k on.
RECURSIVE VerifyInstrs(_, _, _, _, _)
VerifyInstrs(c, al, bb, k, st) ==
    IF k > Size(c, bb) \/ st.fails # {} THEN st
    ELSE LET i == c.bbs[bb].instrs[k]
             st1 == IF IsPhi(c.ins, i) THEN VerifyPhi(c, al, i, st)
                    ELSE VerifyArgs(c, al, i, Len(c.ins[i].args), st)
         IN VerifyInstrs(c, al, bb, k + 1, WriteResult(al, i, st1))

\* verifyBB(bb, reg, stack).  acc = [taken, fails, ends]: branchTaken, the
\* failed check if one was met, and <<block, stack>> for every block whose
\* simulation reached its end.
RECURSIVE verifyBB(_, _, _, _, _, _)
verifyBBWithoutNext1(c, al, bb, reg, stack, acc) ==
    IF acc.fails # {} THEN acc
    ELSE
    LET st == VerifyInstrs(c, al, bb, 1, [reg |-> reg, stack |-> stack, fails |-> {}])
        n0 == c.bbs[bb].next0
        n1 == c.bbs[bb].next1
        visit == Len(acc.visits) + 1
        atExit == IF st.fails = {} /\ n0 = NullBB /\ n1 = NullBB /\ st.stack # <<>>
                  THEN {<<"returns with stack", bb, Len(st.stack)>>} ELSE {}
        acc1 == [taken |-> acc.taken,
                 fails |-> st.fails \cup atExit,
                 ends |-> IF st.fails = {} THEN acc.ends \cup {<<bb, st.stack>>}
                          ELSE acc.ends,
                 edges |-> acc.edges,
                 visits |-> Append(acc.visits, [bb |-> bb, reg |-> st.reg, stack |-> st.stack])]
    IN IF acc1.fails = {} /\ n0 # NullBB /\ <<bb, n0>> \notin acc1.taken
       THEN verifyBB(c, al, n0, st.reg, st.stack,
                     [acc1 EXCEPT !.taken = @ \cup {<<bb, n0>>},
                                  !.edges = Append(@, [from |-> bb, to |-> n0, visit |-> visit])])
       ELSE acc1

\* acc.edges holds the edges in the order in which they were taken, each with
\* the number of the call of verifyBB that took it; acc.visits holds, for
\* every call in the order of the calls, its block and the register file and
\* stack its instructions left, which are what the calls for its successors
\* start from.
verifyBB(c, al, bb, reg, stack, acc) ==
    IF acc.fails # {} THEN acc
    ELSE
    LET st == VerifyInstrs(c, al, bb, 1, [reg |-> reg, stack |-> stack, fails |-> {}])
        n0 == c.bbs[bb].next0
        n1 == c.bbs[bb].next1
        visit == Len(acc.visits) + 1
        atExit == IF st.fails = {} /\ n0 = NullBB /\ n1 = NullBB /\ st.stack # <<>>
                  THEN {<<"returns with stack", bb, Len(st.stack)>>} ELSE {}
        acc1 == [taken |-> acc.taken,
                 fails |-> st.fails \cup atExit,
                 ends |-> IF st.fails = {} THEN acc.ends \cup {<<bb, st.stack>>}
                          ELSE acc.ends,
                 edges |-> acc.edges,
                 visits |-> Append(acc.visits, [bb |-> bb, reg |-> st.reg, stack |-> st.stack])]
        acc2 == IF acc1.fails = {} /\ n0 # NullBB /\ <<bb, n0>> \notin acc1.taken
                THEN verifyBB(c, al, n0, st.reg, st.stack,
                              [acc1 EXCEPT !.taken = @ \cup {<<bb, n0>>},
                                           !.edges = Append(@, [from |-> bb, to |-> n0,
                                                                visit |-> visit])])
                ELSE acc1
    IN IF acc2.fails = {} /\ n1 # NullBB /\ <<bb, n1>> \notin acc2.taken
       THEN verifyBB(c, al, n1, st.reg, st.stack,
                     [acc2 EXCEPT !.taken = @ \cup {<<bb, n1>>},
                                  !.edges = Append(@, [from |-> bb, to |-> n1,
                                                       visit |-> visit])])
       ELSE acc2

verify(c, al) ==
    verifyBB(c, al, 1, <<>>, <<>>,
             [taken |-> {}, fails |-> {}, ends |-> {}, edges |-> <<>>, visits |-> <<>>])

\* ------------------------------------------------------------ CodeStream
\* A bytecode: an opcode and its immediate (0 when it has none).
BC(op, imm) == [op |-> op, imm |-> imm]
JmpSize == 4
WithImmediate == {"br", "brfalse", "ldloc", "stloc", "ldarg", "push", "stvar", "ldvar"}
\* BC::size
BCSize(bc) == IF bc.op \in WithImmediate THEN 1 + JmpSize ELSE 1

\* The stream after construction: no code, no label, no patchpoint.
NewCodeStream ==
    [code |-> <<>>, pos |-> 0, labels |-> <<>>, patchpoints |-> <<>>, nops |-> 0,
     nextLabel |-> 0, failed |-> {}]

\* cs << bc; the immediate of a jump is a patchpoint for its label.
Emit(cs, bc) ==
    [cs EXCEPT !.code = Append(@, bc),
               !.pos = @ + BCSize(bc),
               !.nops = IF bc.op = "nop" THEN @ + 1 ELSE @,
               !.patchpoints = IF bc.op \in {"br", "brfalse"}
                               THEN ((cs.pos + 1) :> bc.imm) @@ @ ELSE @]
\* cs << label: the label stands at the current position.
PlaceLabel(cs, label) ==
    [cs EXCEPT !.labels = IF cs.pos \in DOMAIN @
                          THEN [@ EXCEPT ![cs.pos] = Append(@, label)]
                          ELSE (cs.pos :> <<label>>) @@ @]
Fail(cs, what) == [cs EXCEPT !.failed = {what}]

\* ------------------------------------------------- Pir2Rir::compileCode
\* "create labels for all bbs": mkLabel for the non-empty blocks in
\* breadth-first order.
RECURSIVE MintLabels(_, _, _)
MintLabels(c, order, bbLabels) ==
    IF order = <<>> THEN bbLabels
    ELSE IF isEmpty(c, Head(order)) THEN MintLabels(c, Tail(order), bbLabels)
    ELSE LET l == (Head(order) :> Cardinality(DOMAIN bbLabels)) @@ bbLabels
         IN Strict(l, MintLabels(c, Tail(order), l))
mkLabels(c) == MintLabels(c, BreadthFirst(c, 1), <<>>)
\* bbLabels[bb]: a block without a label gets the default one.
LabelOf(bbLabels, bb) == IF bb \in DOMAIN bbLabels THEN bbLabels[bb] ELSE 0

\* Value* currentEnv = nullptr
nullptr == -3

\* "jump through empty blocks"
NoChase(c, b) == b
RECURSIVE Chase(_, _)
Chase(c, b) == IF isEmpty(c, b) THEN Chase(c, c.bbs[b].next0) ELSE b

hasSlot(al, v) == v \in DOMAIN al
onStack(al, v) == al[v] = stackSlot
\* operator[]
LocalOf(al, v) == al[v] - 1

loadEnv(al, cs, what) ==
    IF what = StaticEnv THEN Emit(cs, BC("push", 0))
    ELSE IF ~hasSlot(al, what) THEN Fail(cs, "Don't know how to load the env")
    ELSE IF ~onStack(al, what) THEN Emit(cs, BC("ldloc", LocalOf(al, what)))
    ELSE cs

loadArg(c, al, cs, instr, what) ==
    IF what = Missing
    THEN IF c.ins[instr].tag = "MkArg" THEN Emit(cs, BC("push", 0))
         ELSE Fail(cs, "only mkarg supports missing")
    ELSE IF ~hasSlot(al, what) THEN Fail(cs, "Don't know how to load the arg")
    ELSE IF ~onStack(al, what) THEN Emit(cs, BC("ldloc", LocalOf(al, what)))
    ELSE cs

\* "Step one: load and set env".  e = [cs, currentEnv].
LoadAndSetEnv(c, al, e, instr) ==
    LET args == c.ins[instr].args
        env == args[Len(args)]
    IN IF IsPhi(c.ins, instr) \/ ~hasEnv(c.ins, instr) THEN e
       ELSE IF e.currentEnv # env
       THEN LET cs1 == loadEnv(al, e.cs, env)
            IN IF cs1.failed # {} THEN [e EXCEPT !.cs = cs1]
               ELSE [cs |-> Emit(cs1, BC("setEnv", 0)), currentEnv |-> env]
       ELSE IF hasSlot(al, env) /\ onStack(al, env)
       THEN [e EXCEPT !.cs = Emit(@, BC("pop", 0))]
       ELSE e

\* "Step two: load the rest", from argument j on.
RECURSIVE LoadArgs(_, _, _, _, _)
LoadArgs(c, al, cs, instr, j) ==
    IF j > Len(c.ins[instr].args) \/ cs.failed # {} THEN cs
    ELSE LET what == c.ins[instr].args[j]
             isEnv == hasEnv(c.ins, instr) /\ what = c.ins[instr].args[Len(c.ins[instr].args)]
         IN LoadArgs(c, al, IF isEnv THEN cs ELSE loadArg(c, al, cs, instr, what),
                     instr, j + 1)

\* The bytecodes of the switch over the instruction's tag that do not end
\* the block.
OpcodeOf(c, instr) ==
    CASE c.ins[instr].tag = "LdArg" -> <<BC("ldarg", 0)>>
      [] c.ins[instr].tag = "StVar" -> <<BC("stvar", 0)>>
      [] c.ins[instr].tag = "LdVar" -> <<BC("ldvar", 0)>>
      [] c.ins[instr].tag = "Inc" -> <<BC("inc", 0)>>
      [] c.ins[instr].tag = "Add" -> <<BC("add", 0)>>
      [] c.ins[instr].tag = "LdConst" -> <<BC("push", c.ins[instr].c)>>
      [] OTHER -> <<>>

\* case Tag::Phi: the assertion on the allocation of the inputs.
PhiInputsInOneSlot(c, al, phi) ==
    \A j \in DOMAIN c.ins[phi].args :
        LET arg == c.ins[phi].args[j]
        IN hasSlot(al, phi) /\ hasSlot(al, arg)
           /\ ((onStack(al, phi) /\ onStack(al, arg)) \/ al[phi] = al[arg])

\* "Store the result"
StoreResultToSlotNumber(c, al, cs, instr) ==
    IF IsVoid(c.ins, instr) \/ IsPhi(c.ins, instr) THEN cs
    ELSE IF ~hasSlot(al, instr) THEN Emit(cs, BC("pop", 0))
    ELSE IF ~onStack(al, instr) THEN Emit(cs, BC("stloc", al[instr]))
    ELSE cs
StoreResult(c, al, cs, instr) ==
    IF IsVoid(c.ins, instr) \/ IsPhi(c.ins, instr) THEN cs
    ELSE IF ~hasSlot(al, instr) THEN Emit(cs, BC("pop", 0))
    ELSE IF ~onStack(al, instr) THEN Emit(cs, BC("stloc", LocalOf(al, instr)))
    ELSE cs

\* The loop over the instructions of bb, from index k on; it ends with the
\* block's Branch or Return, or with the jump to the one successor.
RECURSIVE EmitInstrs(_, _, _, _, _, _)
EmitInstrs(c, al, bbLabels, bb, k, e) ==
    IF e.cs.failed # {} THEN e.cs
    ELSE IF k > Size(c, bb)
    THEN Emit(e.cs, BC("br", LabelOf(bbLabels, Chase(c, c.bbs[bb].next0))))
    ELSE LET instr == c.bbs[bb].instrs[k]
             tag == c.ins[instr].tag
             e1 == LoadAndSetEnv(c, al, e, instr)
             cs2 == IF IsPhi(c.ins, instr) THEN e1.cs
                    ELSE LoadArgs(c, al, e1.cs, instr, 1)
         IN IF cs2.failed # {} THEN cs2
            ELSE IF tag = "Branch"
            THEN Emit(Emit(cs2, BC("brfalse", LabelOf(bbLabels, Chase(c, c.bbs[bb].next0)))),
                      BC("br", LabelOf(bbLabels, Chase(c, c.bbs[bb].next1))))
            ELSE IF tag = "Return" THEN Emit(cs2, BC("ret", 0))
            ELSE IF tag = "Phi" /\ ~PhiInputsInOneSlot(c, al, instr)
            THEN Fail(cs2, "Phi inputs must all be allocated in 1 slot")
            ELSE LET ops == OpcodeOf(c, instr)
                     cs3 == IF ops = <<>> THEN cs2 ELSE Emit(cs2, ops[1])
                     e4 == [cs |-> StoreResult(c, al, cs3, instr),
                            currentEnv |-> e1.currentEnv]
                 IN Strict(e4, EmitInstrs(c, al, bbLabels, bb, k + 1, e4))

\* The second visit of the blocks: label and code of every non-empty block.
RECURSIVE EmitBlocks(_, _, _, _, _)
EmitBlocks(c, al, bbLabels, order, cs) ==
    IF order = <<>> \/ cs.failed # {} THEN cs
    ELSE IF isEmpty(c, Head(order)) THEN EmitBlocks(c, al, bbLabels, Tail(order), cs)
    ELSE LET cs1 == EmitInstrs(c, al, bbLabels, Head(order), 1,
                        [cs |-> PlaceLabel(cs, bbLabels[Head(order)]),
                         currentEnv |-> nullptr])
         IN Strict(cs1, EmitBlocks(c, al, bbLabels, Tail(order), cs1))

\* compileCode after verify(): the labels, then the code of the blocks.
compileCode(c, al) ==
    LET bbLabels == mkLabels(c)
    IN EmitBlocks(c, al, bbLabels, BreadthFirst(c, 1),
                  [NewCodeStream EXCEPT !.nextLabel = Cardinality(DOMAIN bbLabels)])

\* ------------------------------------------------ FunctionWriter::writeCode
\* The keys of an ordered map, in order.
Keys(m) == SortedSeq(DOMAIN m)

\* updatedLabel2Pos[labelNr] = toOffset for the labels at one position; the
\* vector grows with (unsigned)-1 in the new places.
RECURSIVE SetLabels(_, _, _)
SetLabels(l2p, labelNrs, toOffset) ==
    IF labelNrs = <<>> THEN l2p
    ELSE LET nr == Head(labelNrs)
             size == IF nr >= Len(l2p) THEN nr + 1 ELSE Len(l2p)
             set == [n \in 1..size |->
                        IF n = nr + 1 THEN toOffset
                        ELSE IF n <= Len(l2p) THEN l2p[n] ELSE UnsignedMax]
         IN Strict(set, SetLabels(set, Tail(labelNrs), toOffset))

\* The loop over the bytecodes of the stream.  w = [k, from, to, label,
\* patchpoint, l2p, upd, nops, failed]: the index of the bytecode at "from",
\* the two offsets, the two map iterators (indexes in the keys), the updated
\* labels and patchpoints, the nops still expected.
RECURSIVE CopyCode(_, _)
CopyCode(cs, w) ==
    IF w.k > Len(cs.code) \/ w.failed # {} THEN w
    ELSE
    LET bc == cs.code[w.k]
        bcSize == BCSize(bc)
        labelKeys == Keys(cs.labels)
        patchKeys == Keys(cs.patchpoints)
        atLabel == w.label <= Len(labelKeys)
        labelHere == atLabel /\ labelKeys[w.label] = w.from
        w1 == IF labelHere
              THEN [w EXCEPT !.l2p = SetLabels(@, cs.labels[w.from], w.to),
                             !.label = @ + 1]
              ELSE w
        atPatch == w.patchpoint <= Len(patchKeys)
        inThisBC == atPatch /\ patchKeys[w.patchpoint] - w.from < bcSize
        w2 == IF inThisBC
              THEN [w1 EXCEPT !.upd = ((w.to + patchKeys[w.patchpoint] - w.from)
                                        :> cs.patchpoints[patchKeys[w.patchpoint]]) @@ @,
                              !.patchpoint = @ + 1]
              ELSE w1
        next ==
            IF atLabel /\ labelKeys[w.label] < w.from
            THEN [w EXCEPT !.failed = {"nextLabelPos >= fromOffset"}]
            ELSE IF bc.op = "nop"
            THEN [w1 EXCEPT !.nops = @ - 1, !.from = @ + 1, !.k = @ + 1]
            ELSE IF atPatch /\ patchKeys[w.patchpoint] < w.from
            THEN [w1 EXCEPT !.failed = {"patchpointPos >= fromOffset"}]
            ELSE [w2 EXCEPT !.from = @ + bcSize, !.to = @ + bcSize, !.k = @ + 1]
    IN Strict(next, CopyCode(cs, next))

\* "Patch jumps with actual offset in bytes": the patchpoints whose label
\* has no position.
MissingLabels(w) ==
    {pos \in DOMAIN w.upd :
        \/ w.upd[pos] >= Len(w.l2p)
        \/ w.l2p[w.upd[pos] + 1] = UnsignedMax}

writeCodeFromPatchpoint(cs) ==
    LET w == CopyCode(cs, [k |-> 1, from |-> 0, to |-> 0, label |-> 1, patchpoint |-> 1,
                           l2p |-> <<>>, upd |-> <<>>, nops |-> cs.nops, failed |-> {}])
    IN [failed |-> {},
        label2Pos |-> w.l2p,
        jumps |-> [pos \in DOMAIN w.upd |-> w.l2p[w.upd[pos] + 1] - pos]]
\* writeCode on the stream that CodeStream::finalize hands over: the failed
\* assertion if there is one, and the jump written at every patchpoint.
writeCode(cs) ==
    LET w == CopyCode(cs, [k |-> 1, from |-> 0, to |-> 0, label |-> 1, patchpoint |-> 1,
                           l2p |-> <<>>, upd |-> <<>>, nops |-> cs.nops, failed |-> {}])
        failed ==
            IF w.failed # {} THEN w.failed
            ELSE IF w.nops # 0 THEN {"Client reported wrong number of nops"}
            ELSE IF Cardinality(DOMAIN cs.patchpoints) # Cardinality(DOMAIN w.upd)
            THEN {"patchpoints.size() == updatedPatchpoints.size()"}
            ELSE IF MissingLabels(w) # {} THEN {"Jump to missing label"}
            ELSE {}
    IN [failed |-> failed,
        label2Pos |-> w.l2p,
        jumps |-> IF failed # {} THEN <<>>
                  ELSE [pos \in DOMAIN w.upd |-> w.l2p[w.upd[pos] + 1] - pos - JmpSize]]

VARIABLES pc, code, before, livenessInterval, liveAtEnd, todo, addrLess, allocation,
          verified, stream, written

pipelineVars == <<pc, code, before, livenessInterval, liveAtEnd, todo, addrLess,
                  allocation, verified, stream, written>>

\* What the SSAAllocator holds, and what the emitter and the writer produce.
allocVars == <<livenessInterval, liveAtEnd, todo, addrLess, allocation, verified>>
emitVars == <<stream, written>>

\* What one Pir2RirCompiler and the dispatch tables hold: the closures and
\* promises at hand, the debug flags, the done set, the tables; and, for the
\* record, how often each closure was lowered and installed and what the last
\* call of compile did.
VARIABLES program, debug, done, table, lowered, puts, log

compilerVars == <<program, debug, done, table, lowered, puts, log>>

vars == <<pipelineVars, compilerVars>>

NotVerified == [taken |-> {}, fails |-> {}, ends |-> {}, edges |-> <<>>, visits |-> <<>>]
NotWritten == [failed |-> {}, label2Pos |-> <<>>, jumps |-> <<>>]

Init ==
    /\ pc = "start"
    /\ code \in InputCodes
    /\ before = code
    /\ livenessInterval = <<>>
    /\ liveAtEnd = <<>>
    /\ todo = {}
    /\ addrLess = {}
    /\ allocation = <<>>
    /\ verified = NotVerified
    /\ stream = NewCodeStream
    /\ written = NotWritten
    /\ program = <<>>
    /\ debug = {}
    /\ done = {}
    /\ table = <<>>
    /\ lowered = <<>>
    /\ puts = <<>>
    /\ log = <<>>

\* Pir2Rir::toCSSA at the start of compileCode.
ToCSSA ==
    /\ pc = "start"
    /\ before' = code
    /\ \/ /\ code' = toCSSA(code)
          /\ pc' = "cssa"
       \/ /\ InsertsUnderIterator(code)
          /\ code' = code
          /\ pc' = "crashed"
    /\ UNCHANGED <<allocVars, emitVars>>
    /\ UNCHANGED compilerVars

\* A second application of toCSSA to the code the first one produced.
ToCSSAAgain ==
    /\ pc = "cssa"
    /\ before' = code
    /\ \/ /\ code' = toCSSA(code)
          /\ pc' = "cssa2"
       \/ /\ InsertsUnderIterator(code)
          /\ code' = code
          /\ pc' = "crashed"
    /\ UNCHANGED <<allocVars, emitVars>>
    /\ UNCHANGED compilerVars

\* SSAAllocator::SSAAllocator up to the worklist loop: the CFG and the
\* dominance graph are built and the exits are put on todo.
StartLiveness ==
    /\ pc = "cssa"
    /\ pc' = "liveness"
    /\ todo' = exits(code)
    /\ UNCHANGED <<code, before, livenessInterval, liveAtEnd, addrLess, allocation,
                   verified, emitVars>>
    /\ UNCHANGED compilerVars

\* One iteration of the worklist loop.  todo is a std::set<BB*>: the block
\* taken is the one with the smallest address among those on it.  addrLess
\* holds what the run has seen of the address order so far.
LivenessStep ==
    /\ pc = "liveness"
    /\ \E bb \in todo :
        /\ \A x \in todo \ {bb} : <<x, bb>> \notin addrLess
        /\ LET l == LivenessIteration(code,
                       [li |-> livenessInterval, lae |-> liveAtEnd, todo |-> todo], bb)
           IN /\ livenessInterval' = l.li
              /\ liveAtEnd' = l.lae
              /\ todo' = l.todo
        /\ addrLess' = Closure(addrLess \cup {<<bb, x>> : x \in todo \ {bb}})
    /\ UNCHANGED <<pc, code, before, allocation, verified, emitVars>>
    /\ UNCHANGED compilerVars

\* computeLiveness returns (its worklist and live-out sets go away) and the
\* constructor runs computeStackAllocation.
ComputeStackAllocation ==
    /\ pc = "liveness"
    /\ todo = {}
    /\ allocation' = computeStackAllocation(code)
    /\ liveAtEnd' = <<>>
    /\ addrLess' = {}
    /\ pc' = "stackAllocated"
    /\ UNCHANGED <<code, before, livenessInterval, todo, verified, emitVars>>
    /\ UNCHANGED compilerVars

\* The constructor's last call, computeAllocation.
ComputeAllocation ==
    /\ pc = "stackAllocated"
    /\ allocation' = computeAllocation(code, livenessInterval, allocation)
    /\ pc' = "allocated"
    /\ UNCHANGED <<code, before, livenessInterval, liveAtEnd, todo, addrLess, verified,
                   emitVars>>
    /\ UNCHANGED compilerVars

\* alloc.verify() in compileCode; a failed check is an assert(false).
Verify ==
    /\ pc = "allocated"
    /\ verified' = verify(code, allocation)
    /\ pc' = IF verified'.fails = {} THEN "verified" ELSE "verifyFailed"
    /\ UNCHANGED <<code, before, livenessInterval, liveAtEnd, todo, addrLess, allocation,
                   emitVars>>
    /\ UNCHANGED compilerVars

\* The rest of compileCode: the labels and the code of the blocks go to the
\* code stream; a failed assertion ends the compilation.
CompileCode ==
    /\ pc = "verified"
    /\ stream' = compileCode(code, allocation)
    /\ pc' = IF stream'.failed = {} THEN "emitted" ELSE "emitFailed"
    /\ UNCHANGED <<code, before, allocVars, written>>
    /\ UNCHANGED compilerVars

\* ctx.finalizeCode(localsCnt): CodeStream::finalize hands the stream to
\* FunctionWriter::writeCode.
FinalizeCode ==
    /\ pc = "emitted"
    /\ written' = writeCode(stream)
    /\ pc' = IF written'.failed = {} THEN "written" ELSE "writeFailed"
    /\ UNCHANGED <<code, before, allocVars, stream>>
    /\ UNCHANGED compilerVars

Next ==
    \/ ToCSSA
    \/ StartLiveness
    \/ LivenessStep
    \/ ComputeStackAllocation
    \/ ComputeAllocation
    \/ Verify
    \/ CompileCode
    \/ FinalizeCode

Spec == Init /\ [][Next]_vars

NextTwice == ToCSSA \/ ToCSSAAgain

SpecTwice == Init /\ [][NextTwice]_vars

\* ================================================================= claims
RECURSIVE SumOver(_, _)
SumOver(S, f) ==
    IF S = {} THEN 0
    ELSE LET x == CHOOSE y \in S : TRUE IN f[x] + SumOver(S \ {x}, f)

\* ------------------------------------------------------- the allocation
\* A phi together with the copies that are its inputs.
PhiGroup(c, p) == {p} \cup Range(c.ins[p].args)
InSamePhiGroup(c, v1, v2) == \E p \in Phis(c) : {v1, v2} \subseteq PhiGroup(c, p)
SharingSlot(al) ==
    {vv \in (DOMAIN al) \X (DOMAIN al) : vv[1] # vv[2] /\ al[vv[1]] = al[vv[2]] /\ al[vv[1]] > 0}

\* C1 as stated: two distinct values with the same numbered slot never
\* interfere (Liveness::interfere), a phi and the copies coalesced with it
\* and two input copies of one phi included.
C1_NoTwoInSlotInterfere ==
    \A vv \in SharingSlot(allocation) :
        ~interfere(livenessInterval[vv[1]], livenessInterval[vv[2]])

\* C1 amended: two distinct values with the same numbered slot do not
\* interfere unless they are a phi and one of its input copies or two input
\* copies of one phi; those share the phi's slot whatever their intervals.
C1_NoTwoInSlotInterfereButPhiGroup ==
    \A vv \in SharingSlot(allocation) :
        ~InSamePhiGroup(code, vv[1], vv[2]) =>
            ~interfere(livenessInterval[vv[1]], livenessInterval[vv[2]])

C1_Witness ==
    /\ pc = "allocated"
    /\ \E vv \in SharingSlot(allocation) : ~InSamePhiGroup(code, vv[1], vv[2])
    /\ \E v1 \in DOMAIN allocation : \E v2 \in DOMAIN allocation :
          /\ allocation[v1] > 0 /\ allocation[v2] > allocation[v1]
          /\ interfere(livenessInterval[v1], livenessInterval[v2])

VerifyRan == pc \in {"verified", "verifyFailed"}
OperandChecks ==
    {"not allocated", "empty stack", "stack has other", "slot never written",
     "slot overridden"}

\* C2: verify() of the allocation computed for a well-formed code fails no
\* operand check: every operand that is an instruction is allocated and is
\* what the top of the simulated stack, or the simulated register of its
\* slot, holds when the operand is read.
C2_VerifyFindsEveryOperand ==
    VerifyRan => \A f \in verified.fails : f[1] \notin OperandChecks

\* verify() has read an operand from the stack and one from a register.
C2_Witness ==
    /\ pc = "verified"
    /\ \E u \in UNION {UsesOf(code, v) : v \in AllInstrs(code)} :
          ~IsPhi(code.ins, u[1]) /\ allocation[code.ins[u[1]].args[u[2]]] = stackSlot
    /\ \E u \in UNION {UsesOf(code, v) : v \in AllInstrs(code)} :
          ~IsPhi(code.ins, u[1]) /\ allocation[code.ins[u[1]].args[u[2]]] > 0

PhiChecks == {"phi not allocated", "different allocations"}

\* C3: after allocation every phi has an allocation and each of its input
\* copies has the same one (the same numbered slot, or both the stack), so
\* that neither the "different allocations" check of verify() nor the
\* emitter's assertion on the inputs of a phi fires.
C3_PhiAndInputsAllocatedAlike ==
    /\ allocation # <<>> /\ pc # "stackAllocated" =>
          \A p \in Phis(code) :
              /\ p \in DOMAIN allocation
              /\ allocation[p] # unassignedSlot
              /\ \A j \in DOMAIN code.ins[p].args :
                    /\ code.ins[p].args[j] \in DOMAIN allocation
                    /\ allocation[code.ins[p].args[j]] = allocation[p]
    /\ VerifyRan => \A f \in verified.fails : f[1] \notin PhiChecks
    /\ "Phi inputs must all be allocated in 1 slot" \notin stream.failed

\* A code with a phi on the stack and a phi in a numbered slot.
C3_Witness ==
    /\ pc = "written"
    /\ \E p \in Phis(code) : allocation[p] = stackSlot
    /\ \E p \in Phis(code) : allocation[p] > 0

\* C4: when verify() has simulated a block without successors to its end,
\* the simulated stack is empty.
C4_StackEmptyAtExit ==
    \A e \in verified.ends : Succs(code, e[1]) = {} => e[2] = <<>>

\* verify() reached an exit on a path on which a phi took its input from
\* the stack.
C4_Witness ==
    /\ pc = "verified"
    /\ \E e \in verified.ends : Succs(code, e[1]) = {}
    /\ \E e \in verified.ends : e[2] # <<>>

\* The phis of bb that come before any other instruction.
LeadingPhis(c, bb) ==
    {c.bbs[bb].instrs[k] : k \in {n \in 1..Size(c, bb) :
                                     \A m \in 1..n : IsPhi(c.ins, c.bbs[bb].instrs[m])}}
\* v is left on the stack by bb for a leading phi of a successor of bb.
ConsumedBySuccessorPhi(c, bb, v) ==
    \E s \in Succs(c, bb) : \E p \in LeadingPhis(c, s) :
        \E j \in DOMAIN c.ins[p].args : c.ins[p].args[j] = v /\ c.ins[p].inp[j] = bb
IsPhiInput(c, v) == \E p \in Phis(c) : v \in Range(c.ins[p].args)

\* C5: verify() simulates every block to its end, and there the stack holds
\* only phi-input copies allocated on the stack that a leading phi of a
\* successor consumes; every other value allocated on the stack is used, and
\* only in the block that defines it.
C5_StackAtBlockEnd ==
    VerifyRan =>
        /\ {e[1] : e \in verified.ends} = BBIds(code)
        /\ \A e \in verified.ends : \A k \in DOMAIN e[2] :
              /\ allocation[e[2][k]] = stackSlot
              /\ ConsumedBySuccessorPhi(code, e[1], e[2][k])
        /\ \A v \in DOMAIN allocation :
              (allocation[v] = stackSlot /\ ~IsPhiInput(code, v)) =>
                  /\ UsesOf(code, v) # {}
                  /\ \A u \in UsesOf(code, v) :
                        /\ BBofInstr(code, u[1]) = BBofInstr(code, v)
                        /\ IndexIn(code, BBofInstr(code, v), u[1])
                              > IndexIn(code, BBofInstr(code, v), v)

\* A block ends with a copy on the stack, and another value lives on the
\* stack inside one block.
C5_Witness ==
    /\ pc = "verified"
    /\ \E e \in verified.ends : e[2] # <<>>
    /\ \E v \in DOMAIN allocation :
          allocation[v] = stackSlot /\ ~IsPhiInput(code, v) /\ ~IsPhi(code.ins, v)


\* ------------------------------------------------------------ the emitter
VerifyPassed == pc \in {"verified", "emitted", "emitFailed", "written", "writeFailed"}
\* What the emitter loads without a slot: the static environment of an
\* instruction with an environment, Missing for a MkArg.
MaterializedInline(c, i, j) ==
    \/ c.ins[i].args[j] = StaticEnv /\ hasEnv(c.ins, i) /\ j = Len(c.ins[i].args)
    \/ c.ins[i].args[j] = Missing /\ c.ins[i].tag = "MkArg"
DontKnowHowToLoad == {"Don't know how to load the arg", "Don't know how to load the env"}

\* C6: once verify() has passed, every operand of every instruction has an
\* entry in the allocation map or is a constant the emitter materializes
\* inline, and loadArg and loadEnv do not reach their "Don't know how to
\* load" assertion.
C6_EveryOperandLoadable ==
    VerifyPassed =>
        /\ \A i \in AllInstrs(code) : \A j \in DOMAIN code.ins[i].args :
              hasSlot(allocation, code.ins[i].args[j]) \/ MaterializedInline(code, i, j)
        /\ stream.failed \cap DontKnowHowToLoad = {}

\* The first non-empty block on the path of next0 edges from block s.
RECURSIVE FirstNonEmpty(_, _)
FirstNonEmpty(c, s) == IF c.bbs[s].instrs = <<>> THEN FirstNonEmpty(c, c.bbs[s].next0) ELSE s

\* The blocks the code of block b jumps to, in the order of its jumps.
JumpTargets(c, b) ==
    LET last == c.ins[c.bbs[b].instrs[Size(c, b)]].tag
    IN IF last = "Branch"
       THEN <<FirstNonEmpty(c, c.bbs[b].next0), FirstNonEmpty(c, c.bbs[b].next1)>>
       ELSE IF last = "Return" THEN <<>>
       ELSE <<FirstNonEmpty(c, c.bbs[b].next0)>>

NonEmptyBBs(c) == {b \in BBIds(c) : c.bbs[b].instrs # <<>>}
\* The positions in the stream at which label l stands.
PlacesOf(cs, l) == {p \in DOMAIN cs.labels : l \in Range(cs.labels[p])}
\* The labels of the jumps emitted from position lo on and before hi.
JumpsBetween(cs, lo, hi) ==
    LET at == SortedSeq({p \in DOMAIN cs.patchpoints : lo <= p /\ p < hi})
    IN [n \in DOMAIN at |-> cs.patchpoints[at[n]]]
\* Where the code of the block with label l ends: at the next label, or at
\* the end of the stream.
EndOfCode(cs, l) ==
    LET start == CHOOSE p \in PlacesOf(cs, l) : TRUE
        later == {p \in DOMAIN cs.labels : p > start}
    IN IF later = {} THEN cs.pos ELSE CHOOSE p \in later : \A q \in later : p <= q

\* C7: every label of compileCode belongs to one non-empty block and stands
\* at one place of the stream; the jumps in the code of a block target the
\* labels of the first non-empty blocks found from its successors along
\* next0; and writeCode resolves every jump to the place of its label
\* without reaching "Jump to missing label".
C7_JumpsTargetPlacedLabels ==
    /\ pc \in {"emitted", "written", "writeFailed"} =>
          LET L == mkLabels(code)
          IN /\ DOMAIN L = NonEmptyBBs(code)
             /\ \A a \in DOMAIN L : \A b \in DOMAIN L : L[a] = L[b] => a = b
             /\ \A b \in DOMAIN L :
                   /\ Cardinality(PlacesOf(stream, L[b])) = 1
                   /\ LET start == CHOOSE p \in PlacesOf(stream, L[b]) : TRUE
                          jumps == JumpsBetween(stream, start, EndOfCode(stream, L[b]))
                      IN /\ Len(jumps) = Len(JumpTargets(code, b))
                         /\ \A n \in DOMAIN jumps : jumps[n] = L[JumpTargets(code, b)[n]]
    /\ pc \in {"written", "writeFailed"} =>
          /\ written.failed = {}
          /\ \A p \in DOMAIN stream.patchpoints :
                /\ p \in DOMAIN written.jumps
                /\ p + JmpSize + written.jumps[p] \in PlacesOf(stream, stream.patchpoints[p])

\* writeCode has resolved a conditional branch one of whose successors is
\* an empty block.
C7_Witness ==
    /\ pc = "written"
    /\ \E b \in NonEmptyBBs(code) :
          /\ Len(JumpTargets(code, b)) = 2
          /\ \E x \in Succs(code, b) : isEmpty(code, x)

\* ----------------------------------------------------------------- toCSSA
\* x is a copy whose only use is an input of a phi, for the block x is in.
IsPhiInputCopy(c, x) ==
    /\ c.ins[x].tag = "PirCopy"
    /\ \E p \in Phis(c) : \E i \in DOMAIN c.ins[p].args :
          UsesOf(c, x) = {<<p, i>>} /\ c.ins[p].inp[i] = BBofInstr(c, x)

\* Input i of phi p is a copy in the i-th input block, used by p only.
InputIsCopyInPred(c, p, i) ==
    LET x == c.ins[p].args[i]
    IN /\ IsInstruction(x)
       /\ c.ins[x].tag = "PirCopy"
       /\ x \in Range(c.bbs[c.ins[p].inp[i]].instrs)
       /\ UsesOf(c, x) = {<<p, i>>}

\* The copy is the last instruction, or the one right before the Branch.
CopyIsLast(c, p, i) ==
    LET s == c.bbs[c.ins[p].inp[i]].instrs
    IN IF c.ins[s[Len(s)]].tag = "Branch"
       THEN Len(s) >= 2 /\ s[Len(s) - 1] = c.ins[p].args[i]
       ELSE s[Len(s)] = c.ins[p].args[i]

\* Only the Branch and other phi-input copies follow the copy in its block.
CopyIsInTail(c, p, i) ==
    LET pred == c.ins[p].inp[i]
        s == c.bbs[pred].instrs
    IN /\ \A k \in (IndexIn(c, pred, c.ins[p].args[i]) + 1)..Len(s) :
             \/ k = Len(s) /\ c.ins[s[k]].tag = "Branch"
             \/ IsPhiInputCopy(c, s[k])
       /\ \A k \in 1..(Len(s) - 1) : c.ins[s[k]].tag # "Branch"

\* C8 as stated: after toCSSA every phi input is a PirCopy in the input's
\* predecessor block, used by that phi only, placed immediately before the
\* block's terminating branch or else as its last instruction.
C8_CopyImmediatelyBeforeBranch ==
    pc = "cssa" =>
        \A p \in Phis(code) : \A i \in DOMAIN code.ins[p].args :
            InputIsCopyInPred(code, p, i) /\ CopyIsLast(code, p, i)

\* C8 amended: after toCSSA every phi input is a PirCopy in the input's
\* predecessor block, used by that phi only; nothing follows it in that
\* block but copies of other phi inputs and the terminating branch, which
\* stays the last instruction.
C8_CopyAtEndOfPredecessor ==
    pc = "cssa" =>
        \A p \in Phis(code) : \A i \in DOMAIN code.ins[p].args :
            InputIsCopyInPred(code, p, i) /\ CopyIsInTail(code, p, i)

C8_Witness ==
    /\ pc = "cssa"
    /\ \E p \in Phis(code) : \E i \in DOMAIN code.ins[p].args :
          InputIsCopyInPred(code, p, i) /\ ~CopyIsLast(code, p, i)

\* The copy that follows phi p in its block (0 when nothing follows).
FollowerOf(c, p) ==
    LET b == BBofInstr(c, p)
        k == IndexIn(c, b, p)
    IN IF k < Size(c, b) THEN c.bbs[b].instrs[k + 1] ELSE 0

\* Phi p is followed by a copy of p that is p's only use.
PhiHasCopy(c, p) ==
    LET q == FollowerOf(c, p)
    IN /\ IsInstruction(q)
       /\ c.ins[q] = I("PirCopy", <<p>>)
       /\ UsesOf(c, p) = {<<q, 1>>}

\* C9: after toCSSA every phi p is immediately followed by a copy p' := p,
\* p' is the only use of p, and every use of p before the transformation is
\* now a use of p' (for a use by a phi: by the copy inserted for that input).
C9_PhiCopyTakesUses ==
    pc = "cssa" =>
        \A p \in Phis(before) :
            /\ PhiHasCopy(code, p)
            /\ \A u \in UsesOf(before, p) :
                  LET now == code.ins[u[1]].args[u[2]]
                  IN IF IsPhi(before.ins, u[1])
                     THEN /\ now > Len(before.ins)
                          /\ code.ins[now] = I("PirCopy", <<FollowerOf(code, p)>>)
                     ELSE now = FollowerOf(code, p)

C9_Witness ==
    /\ pc = "cssa"
    /\ \E p \in Phis(before) :
          /\ \E u \in UsesOf(before, p) : IsPhi(before.ins, u[1])
          /\ \E u \in UsesOf(before, p) : BBofInstr(before, u[1]) # BBofInstr(before, p)

\* Instructions named by their place, so that codes compare up to the names
\* of their instructions.
Place(c, v) == IF IsInstruction(v) THEN <<BBofInstr(c, v), IndexIn(c, BBofInstr(c, v), v)>>
               ELSE <<0, v>>
StructurallyEquivalent(a, b) ==
    /\ DOMAIN a.bbs = DOMAIN b.bbs
    /\ \A x \in DOMAIN a.bbs :
          /\ a.bbs[x].next0 = b.bbs[x].next0 /\ a.bbs[x].next1 = b.bbs[x].next1
          /\ Len(a.bbs[x].instrs) = Len(b.bbs[x].instrs)
          /\ \A k \in DOMAIN a.bbs[x].instrs :
                LET i == a.ins[a.bbs[x].instrs[k]]
                    j == b.ins[b.bbs[x].instrs[k]]
                IN /\ i.tag = j.tag /\ i.inp = j.inp /\ Len(i.args) = Len(j.args)
                   /\ \A n \in DOMAIN i.args : Place(a, i.args[n]) = Place(b, j.args[n])

\* C10 as stated: toCSSA applied to the result of toCSSA gives a code
\* structurally equivalent to that result (no further copies).
C10_SecondToCSSAChangesNothing ==
    pc = "cssa2" => StructurallyEquivalent(code, before)

\* C10 amended: a second toCSSA inserts n + 1 further copies for every phi
\* with n inputs and leaves only a code without phis unchanged; its result is
\* in CSSA form again (every phi input a copy used by that phi only, every
\* phi followed by the copy that is its only use).
C10_SecondToCSSAAddsCopies ==
    pc = "cssa2" =>
        /\ Len(code.ins) = Len(before.ins)
              + SumOver(Phis(before), [p \in Phis(before) |-> Len(before.ins[p].args) + 1])
        /\ Phis(before) = {} => code = before
        /\ \A p \in Phis(code) :
              /\ PhiHasCopy(code, p)
              /\ \A i \in DOMAIN code.ins[p].args : InputIsCopyInPred(code, p, i)

C10_Witness == pc = "cssa2" /\ Phis(before) # {} /\ Len(code.ins) > Len(before.ins)

\* ------------------------------------------------------------ determinism
\* computeLiveness run to its end with the block of the smallest id taken
\* from the worklist at every turn: one of the orders std::set<BB*> may give.
\* l = [li, lae, todo].
RECURSIVE LivenessFrom(_, _)
LivenessFrom(c, l) ==
    IF l.todo = {} THEN l
    ELSE LET bb == CHOOSE x \in l.todo : \A y \in l.todo : x <= y
             l1 == LivenessIteration(c, l, bb)
         IN Strict(l1, LivenessFrom(c, l1))
LivenessInIdOrder(c) == LivenessFrom(c, [li |-> <<>>, lae |-> <<>>, todo |-> exits(c)]).li
AllocationInIdOrder(c) ==
    computeAllocation(c, LivenessInIdOrder(c), computeStackAllocation(c))

LivenessDone ==
    \/ pc = "liveness" /\ todo = {}
    \/ pc \in {"stackAllocated", "allocated", "verified", "verifyFailed", "emitted",
               "emitFailed", "written", "writeFailed"}
AllocationDone ==
    pc \in {"allocated", "verified", "verifyFailed", "emitted", "emitFailed", "written",
            "writeFailed"}
VerifyDone ==
    pc \in {"verified", "verifyFailed", "emitted", "emitFailed", "written", "writeFailed"}

\* C11: for a fixed CSSA code the liveness records, the allocation map and
\* the outcome of verify() do not depend on the order in which computeLiveness
\* takes the blocks from its worklist: whatever the order, they are those of
\* the run that takes the block with the smallest id every time.
C11_SameForEveryWorklistOrder ==
    /\ LivenessDone => livenessInterval = LivenessInIdOrder(code)
    /\ AllocationDone => allocation = AllocationInIdOrder(code)
    /\ VerifyDone => verified = verify(code, AllocationInIdOrder(code))

\* The worklist held two blocks or more at some turn (addrLess records the
\* choice made) and the fixed point is reached.
C11_Witness ==
    /\ pc = "liveness" /\ todo = {}
    /\ \E o \in addrLess : o[1] > o[2]
    /\ \E v \in DOMAIN livenessInterval : \E b \in BBIds(code) : livenessInterval[v][b].live

\* ------------------------------------------------------------ termination
LiveOutOf(lae, b) == IF b \in DOMAIN lae THEN lae[b] ELSE {}
\* Block b is on the worklist after an iteration that took bb although it was
\* not left there: it was put (back) on it.
PutOnWorklist(bb) == todo' \ (todo \ {bb})
PutBackRule ==
    (pc = "liveness" /\ pc' = "liveness") =>
        \E bb \in todo :
            /\ \A x \in todo \ {bb} : <<x, bb>> \notin addrLess
            /\ \A b \in PutOnWorklist(bb) :
                  \/ b # bb /\ b \notin DOMAIN liveAtEnd /\ b \in Range(immediatePredecessors(code, bb))
                  \/ /\ LiveOutOf(liveAtEnd, b) \subseteq liveAtEnd'[b]
                     /\ LiveOutOf(liveAtEnd, b) # liveAtEnd'[b]

\* What the worklist loop can still do: the blocks on the worklist, and for
\* every block the values its live-out set can still gain (one more for a
\* block that has no live-out set yet).  A value is an instruction or one of
\* Nil, Missing, StaticEnv.
RoomIn(c, lae, b) ==
    IF b \in DOMAIN lae THEN Len(c.ins) + 3 - Cardinality(lae[b]) ELSE Len(c.ins) + 4
WorkLeft ==
    Cardinality(todo) + SumOver(BBIds(code), [b \in BBIds(code) |-> RoomIn(code, liveAtEnd, b)])
WorkLeftDecreases ==
    (pc = "liveness" /\ pc' = "liveness") => (WorkLeft' < WorkLeft /\ WorkLeft' >= 0)

\* C12: computeLiveness terminates, loops and self-loops included: an
\* iteration puts a block on the worklist only when it sees it as a
\* predecessor for the first time or when its live-out set strictly grows,
\* so that every iteration strictly decreases a natural number (the size of
\* the worklist plus the room left in the live-out sets) and the worklist
\* becomes empty.
C12_LivenessTerminates == [][PutBackRule /\ WorkLeftDecreases]_vars

\* The fixed point is reached for a code with a block that is its own
\* successor, and for one with a longer cycle.
HasSelfLoop(c) == \E b \in BBIds(c) : b \in Succs(c, b)
HasLongerLoop(c) == \E b \in BBIds(c) : b \notin Succs(c, b) /\ b \in After(c, b)
C12_Witness ==
    /\ pc = "liveness" /\ todo = {}
    /\ HasSelfLoop(code) \/ HasLongerLoop(code)
    /\ \E b \in BBIds(code) : b \in After(code, b) /\ liveAtEnd[b] # {}

\* ---------------------------------------------------------------------------
\* Pir2RirCompiler: closures, promises and dispatch tables
\* ---------------------------------------------------------------------------

\* The longest list of nested references (MkArg, MkFunCls, StaticCall) the
\* outer closure's body has here; the inner closure's is one shorter.
MaxRefs == 2

Closures == {"outer", "inner"}
Promises == {"p", "q"}

MkArg(p) == [op |-> "MkArg", to |-> p]
MkFunCls(c) == [op |-> "MkFunCls", to |-> c]
StaticCall(c) == [op |-> "StaticCall", to |-> c]

SeqsUpTo(S, n) == UNION {[1..k -> S] : k \in 0..n}

\* The instructions of a body that refer to other code, in the order in which
\* compileCode reaches them.  The inner closure is created by the outer one;
\* either may call either; promise p may hold promise q or a call.
OuterRefs ==
    {StaticCall(c) : c \in Closures} \cup {MkFunCls("inner")} \cup {MkArg(p) : p \in Promises}
InnerRefs == {StaticCall(c) : c \in Closures} \cup {MkArg("p")}
PromiseRefs == {MkArg("q"), StaticCall("inner")}

\* An argument without a default: a null entry of cls->defaultArgs.
NoDefault == "nullptr"

Programs ==
    {[body |-> [c \in Closures |-> IF c = "outer" THEN bo ELSE bi],
      prom |-> [p \in Promises |-> IF p = "p" THEN bp ELSE <<>>],
      defaultArgs |-> [c \in Closures |-> IF c = "outer" THEN da ELSE <<>>]] :
        bo \in SeqsUpTo(OuterRefs, MaxRefs), bi \in SeqsUpTo(InnerRefs, MaxRefs - 1),
        bp \in SeqsUpTo(PromiseRefs, 1), da \in {<<>>, <<NoDefault, "q">>}}

\* DispatchTable: its capacity and the tiers it has a function for.
NewTable(cap) == [capacity |-> cap, tiers |-> {0}]
available(dt, i) == i \in dt.tiers
Tables ==
    {[c \in Closures |-> IF c = "outer" THEN to ELSE ti] :
        to \in {NewTable(2), [NewTable(2) EXCEPT !.tiers = {0, 1}]},
        ti \in {NewTable(1), NewTable(2), [NewTable(2) EXCEPT !.tiers = {0, 1}]}}

\* compile is called, at top level or by a StaticCall, only for closures whose
\* table has room for tier 1.
Callable(prog, tab, c) == tab[c].capacity > 1
RefsOf(prog) ==
    UNION {Range(prog.body[c]) : c \in Closures} \cup UNION {Range(prog.prom[p]) : p \in Promises}
WellFormedProgram(prog, tab) ==
    \A it \in RefsOf(prog) : it.op = "StaticCall" => Callable(prog, tab, it.to)

\* One entry of the record of what a call did: ev is what happened, in is the
\* Pir2Rir (numbered in the order of their finalize) it happened in, on is the
\* closure or promise, idx the code index where there is one.
Ev(ev, in, on, idx) == [ev |-> ev, in |-> in, on |-> on, idx |-> idx]
Logged(m, e) == [m EXCEPT !.log = Append(@, e)]

\* For the record: whether the table had tier 1 when it was asked.
Tier1(dt) == IF available(dt, 1) THEN 1 ELSE 0

\* table->put(1, fun)
put(m, cls) ==
    Logged([m EXCEPT !.table[cls].tiers = @ \cup {1}, !.puts[cls] = @ + 1],
           Ev("put", m.pir2rir, cls, 1))

\* Context::finalizeCode: the stream on top becomes the next code object of
\* the function; its index is returned.
finalizeCode(m, what) ==
    Logged([m EXCEPT !.codes = @ + 1], Ev("finalizeCode", m.pir2rir, what, m.codes))

RECURSIVE compile(_, _), finalize(_, _), lowerCode(_, _, _), getPromiseIdx(_, _),
          lowerMkFunCls(_, _), defaultArgsFrom(_, _, _)

getPromiseIdxUncached(m, p) ==
    LET m1 == lowerCode(Logged(m, Ev("pushPromise", m.pir2rir, p, -1)), m.program.prom[p], 1)
        m2 == finalizeCode(m1, p)
    IN [m2 EXCEPT !.promises = (p :> m1.codes) @@ @]

\* Pir2Rir::getPromiseIdx
getPromiseIdx(m, p) ==
    IF p \in DOMAIN m.promises THEN m
    ELSE LET m1 == lowerCode(Logged(m, Ev("pushPromise", m.pir2rir, p, -1)),
                             m.program.prom[p], 1)
             m2 == finalizeCode(m1, p)
         IN [m2 EXCEPT !.promises = (p :> m1.codes) @@ @]

lowerMkFunClsInstalling(m, c) ==
    LET dt == m.table[c]
        m0 == Logged(m, Ev("MkFunCls", m.pir2rir, c, Tier1(dt)))
    IN IF dt.capacity > 1 /\ ~available(dt, 1) THEN put(finalize(m0, c), c) ELSE m0

\* case Tag::MkFunCls of compileCode
lowerMkFunCls(m, c) ==
    LET dt == m.table[c]
        m0 == Logged(m, Ev("MkFunCls", m.pir2rir, c, Tier1(dt)))
    IN IF dt.capacity > 1 /\ ~available(dt, 1)
       THEN LET m1 == finalize(m0, c)
            IN IF "DryRun" \notin m1.debug THEN put(m1, c) ELSE m1
       ELSE m0

\* compileCode, as far as the nested references of the body go: MkArg emits
\* the promise's index, MkFunCls lowers the inner closure, StaticCall compiles
\* the callee.
lowerCode(m, items, k) ==
    IF k > Len(items) THEN m
    ELSE LET it == items[k]
             m1 == CASE it.op = "MkArg" ->
                          LET g == getPromiseIdx(m, it.to)
                          IN Logged(g, Ev("promise", g.pir2rir, it.to, g.promises[it.to]))
                     [] it.op = "MkFunCls" -> lowerMkFunCls(m, it.to)
                     [] it.op = "StaticCall" -> compile(m, it.to)
         IN Strict(m1, lowerCode(m1, items, k + 1))

\* The loop over cls->defaultArgs in finalize.
defaultArgsFrom(m, args, k) ==
    IF k > Len(args) THEN m
    ELSE LET m1 == IF args[k] = NoDefault THEN m ELSE getPromiseIdx(m, args[k])
         IN Strict(m1, defaultArgsFrom(m1, args, k + 1))

\* Pir2Rir::finalize on a new Pir2Rir for cls, with a new FunctionWriter.
finalize(m, cls) ==
    LET inst == SumOver(Closures, m.lowered) + 1
        m0 == Logged([m EXCEPT !.lowered[cls] = @ + 1, !.pir2rir = inst,
                               !.promises = <<>>, !.codes = 0],
                     Ev("finalize", inst, cls, -1))
        m1 == defaultArgsFrom(m0, m.program.defaultArgs[cls], 1)
        m2 == lowerCode(Logged(m1, Ev("pushBody", inst, cls, -1)), m.program.body[cls], 1)
        m3 == Logged(finalizeCode(m2, cls), Ev("finalized", inst, cls, -1))
    IN [m3 EXCEPT !.pir2rir = m.pir2rir, !.promises = m.promises, !.codes = m.codes]

compileWithoutTableCheck(m, cls) ==
    LET m0 == Logged(m, Ev("compile", m.pir2rir, cls, IF cls \in m.done THEN -1 ELSE Tier1(m.table[cls])))
    IN IF cls \in m.done THEN m0
       ELSE LET m2 == finalize([m0 EXCEPT !.done = @ \cup {cls}], cls)
            IN IF "DryRun" \in m2.debug THEN m2 ELSE put(m2, cls)

\* Pir2RirCompiler::compile
compile(m, cls) ==
    LET m0 == Logged(m, Ev("compile", m.pir2rir, cls, IF cls \in m.done THEN -1 ELSE Tier1(m.table[cls])))
    IN IF cls \in m.done THEN m0
       ELSE LET m1 == [m0 EXCEPT !.done = @ \cup {cls}]
            IN IF available(m1.table[cls], 1) THEN m1
               ELSE LET m2 == finalize(m1, cls)
                    IN IF "DryRun" \in m2.debug THEN m2 ELSE put(m2, cls)

NoneLowered == [c \in Closures |-> 0]

InitCompiler ==
    /\ pc = "idle"
    /\ code = <<>>
    /\ before = <<>>
    /\ livenessInterval = <<>>
    /\ liveAtEnd = <<>>
    /\ todo = {}
    /\ addrLess = {}
    /\ allocation = <<>>
    /\ verified = NotVerified
    /\ stream = NewCodeStream
    /\ written = NotWritten
    /\ table \in Tables
    /\ program \in {prog \in Programs : WellFormedProgram(prog, table)}
    /\ debug \in {{}, {"DryRun"}}
    /\ done = {}
    /\ lowered = NoneLowered
    /\ puts = NoneLowered
    /\ log = <<>>

\* A call of compile(cls, origin) from outside, the whole of it.
Compile ==
    /\ pc = "idle"
    /\ \E cls \in Closures :
        /\ Callable(program, table, cls)
        /\ LET r == compile([program |-> program, debug |-> debug, done |-> done,
                             table |-> table, lowered |-> lowered, puts |-> puts,
                             log |-> <<>>, pir2rir |-> 0, promises |-> <<>>, codes |-> 0],
                            cls)
           IN /\ done' = r.done
              /\ table' = r.table
              /\ lowered' = r.lowered
              /\ puts' = r.puts
              /\ log' = r.log
    /\ UNCHANGED <<pipelineVars, program, debug>>

\* The compiler goes away and the next one starts with an empty done set; the
\* dispatch tables stay as they are.
NewCompiler ==
    /\ pc = "idle"
    /\ done # {}
    /\ done' = {}
    /\ lowered' = NoneLowered
    /\ puts' = NoneLowered
    /\ log' = <<>>
    /\ UNCHANGED <<pipelineVars, program, debug, table>>

NextCompiler == Compile \/ NewCompiler

SpecCompiler == InitCompiler /\ [][NextCompiler]_vars

\* ---------------------------------------------------------------------------
\* tier 1 already there
\* ---------------------------------------------------------------------------

IsEv(e, ev) == e.ev = ev
StartsWork(e) == e.ev \in {"finalize", "put"}

\* C13: when compile(cls, origin) finds tier 1 in the closure's dispatch table
\* it returns at once: the closure is not lowered and put is not called, so a
\* call from outside does nothing else at all; and a MkFunCls whose table has
\* tier 1 does not lower the inner closure.
C13_Tier1MeansNoLowering ==
    /\ \A i \in DOMAIN log :
          (log[i].ev \in {"compile", "MkFunCls"} /\ log[i].idx = 1)
              => (i = Len(log) \/ ~StartsWork(log[i + 1]))
    /\ (log # <<>> /\ log[1].idx = 1) => Len(log) = 1

C13_Witness ==
    /\ \E i \in DOMAIN log : log[i].ev = "MkFunCls" /\ log[i].idx = 1 /\ i < Len(log)
    /\ \E i \in DOMAIN log : log[i].ev = "compile" /\ log[i].idx = 1 /\ i < Len(log)
    /\ \E i \in DOMAIN log : log[i].ev = "put"

\* ---------------------------------------------------------------------------
\* DryRun
\* ---------------------------------------------------------------------------

\* C14: with the DryRun flag set no call of compile, whatever it lowers on
\* the way, calls put: no dispatch table ever changes.
C14_DryRunNeverPuts ==
    [][("DryRun" \in debug) =>
          /\ table' = table
          /\ puts' = NoneLowered
          /\ \A i \in DOMAIN log' : log'[i].ev # "put"]_vars

C14_Witness ==
    /\ "DryRun" \in debug
    /\ log # <<>> /\ log[1].on = "outer"
    /\ \E i \in DOMAIN log : log[i].ev = "finalized" /\ log[i].on = "outer"
    /\ \E i \in DOMAIN log : log[i].ev = "finalized" /\ log[i].on = "inner"
    /\ \E i \in DOMAIN log : log[i].ev = "MkFunCls" /\ log[i].idx = 0

\* ---------------------------------------------------------------------------
\* lowering once
\* ---------------------------------------------------------------------------

\* C15: within one Pir2RirCompiler no closure is lowered (finalize started on
\* it) more than once, whichever way it is reached, and no lowering of a
\* closure starts while a lowering of the same closure is in progress.
C15_NoClosureLoweredTwice ==
    /\ \A c \in Closures : lowered[c] <= 1
    /\ \A i, j \in DOMAIN log :
          (i < j /\ log[i].ev = "finalize" /\ log[j].ev = "finalize" /\ log[i].on = log[j].on)
              => \E k \in (i + 1)..(j - 1) : log[k].ev = "finalized" /\ log[k].in = log[i].in

\* ---------------------------------------------------------------------------
\* promises
\* ---------------------------------------------------------------------------

Instances == {log[i].in : i \in DOMAIN log} \ {0}
At(ev, n, on) == {i \in DOMAIN log : log[i].ev = ev /\ log[i].in = n /\ log[i].on = on}
BodyFinalizedAt(n) ==
    {i \in DOMAIN log : log[i].ev = "finalizeCode" /\ log[i].in = n /\ log[i].on \in Closures}

\* C16: in the lowering of one closure every promise is compiled and
\* finalized once, however many MkArg refer to it; every MkArg emits the index
\* that finalizing it returned; a promise is finalized before the body (of
\* the closure, or of the promise) that holds it; and the code objects of one
\* function are numbered in the order in which they were finalized.
C16_PromiseOnceAndInnerFirst ==
    \A n \in Instances :
        /\ \A p \in Promises :
              /\ Cardinality(At("pushPromise", n, p)) <= 1
              /\ Cardinality(At("finalizeCode", n, p)) = Cardinality(At("pushPromise", n, p))
              /\ \A r \in At("promise", n, p) :
                    \E f \in At("finalizeCode", n, p) : f < r /\ log[r].idx = log[f].idx
              /\ \A f \in At("finalizeCode", n, p) :
                    /\ \E s \in At("pushPromise", n, p) : s < f
                    /\ \E b \in BodyFinalizedAt(n) : f < b
              /\ \A q \in Promises :
                    \A s \in At("pushPromise", n, p), t \in At("pushPromise", n, q),
                       f \in At("finalizeCode", n, p) :
                        (s < t /\ t < f) => \E g \in At("finalizeCode", n, q) : t < g /\ g < f
        /\ \A i, j \in DOMAIN log :
              (/\ log[i].ev = "finalizeCode" /\ log[i].in = n
               /\ log[j].ev = "finalizeCode" /\ log[j].in = n /\ i < j)
                  => log[i].idx < log[j].idx

C16_Witness ==
    \E n \in Instances :
        /\ Cardinality(At("promise", n, "p")) >= 2
        /\ \E s \in At("pushPromise", n, "p"), t \in At("pushPromise", n, "q"),
              f \in At("finalizeCode", n, "p") : s < t /\ t < f
        /\ BodyFinalizedAt(n) # {}

\* ---------------------------------------------------------------------------
\* the empty function
\* ---------------------------------------------------------------------------

ReturnNilOnly ==
    [ins |-> <<I("Return", <<Nil>>)>>, bbs |-> <<BBOf(<<1>>, NullBB, NullBB)>>]
EmitterRan == pc \in {"emitted", "emitFailed", "written", "writeFailed"}

\* C17: the code whose only instruction is Return Nil is lowered without a
\* failed assertion, with zero locals, to push Nil; ret.
C17_ReturnNilIsPushNilRet ==
    (before = ReturnNilOnly /\ EmitterRan) =>
        /\ stream.failed = {}
        /\ slots(allocation) = 0
        /\ stream.code = <<BC("push", Nil), BC("ret", Nil)>>

\* ---------------------------------------------------------------------------
\* values with more than one use
\* ---------------------------------------------------------------------------

StackAllocationRan == pc \notin {"start", "cssa", "cssa2", "crashed", "liveness", "idle"}
MultiUse(c) == {v \in AllInstrs(c) : Cardinality(UsesOf(c, v)) >= 2}
\* How often bc stands in the stream.
TimesIn(cs, bc) == Cardinality({k \in DOMAIN cs.code : cs.code[k] = bc})
\* The values kept in local s, and their uses by instructions other than phis.
KeptIn(c, al, s) == {v \in AllInstrs(c) : hasSlot(al, v) /\ al[v] = s + 1}
LoadsOf(c, al, s) ==
    UNION {{u \in UsesOf(c, v) : ~IsPhi(c.ins, u[1])} : v \in KeptIn(c, al, s)}
AddTwice == [ins |-> <<I("LdArg", <<>>), I("Add", <<1, 1>>), I("Return", <<2>>)>>,
             bbs |-> <<BBOf(<<1, 2, 3>>, NullBB, NullBB)>>]

IsDiamondConst == \E k1, k2 \in {1, 2} : before = DiamondConst(k1, k2)
\* bcs stands in the stream, one after the other.
StandsIn(cs, bcs) ==
    \E k \in 0..(Len(cs.code) - Len(bcs)) : \A j \in DOMAIN bcs : cs.code[k + j] = bcs[j]

\* C19 (as stated): cx, cy and p share a numbered local s; each arm is
\* push k; stloc s; br merge and the merge block is ldloc s; ret.
C19_DiamondArmsStoreLocal ==
    (IsDiamondConst /\ EmitterRan) =>
        /\ allocation[7] = allocation[5] /\ allocation[8] = allocation[5]
        /\ allocation[5] > 0
        /\ LET s == LocalOf(allocation, 5)
           IN /\ \A b \in {2, 3} :
                    StandsIn(stream, <<BC("push", code.ins[b + 1].c), BC("stloc", s), BC("br", 3)>>)
              /\ StandsIn(stream, <<BC("ldloc", s), BC("ret", 0)>>)

\* C19 (amended): cx, cy, p and the copy of p are all allocated STACK, no
\* local is used, each arm is push k; br merge and the merge block is ret
\* alone: the stream holds no load or store of a local at all.
C19_DiamondPhiOnStack ==
    (IsDiamondConst /\ EmitterRan) =>
        /\ \A v \in {5, 7, 8, 9} : hasSlot(allocation, v) /\ onStack(allocation, v)
        /\ slots(allocation) = 0
        /\ stream.failed = {}
        /\ stream.code = <<BC("ldarg", 0), BC("brfalse", 1), BC("br", 2),
                           BC("push", code.ins[3].c), BC("br", 3),
                           BC("push", code.ins[4].c), BC("br", 3),
                           BC("ret", 0)>>
        /\ PlacesOf(stream, 3) = {stream.pos - 1}

C19_Witness ==
    /\ before = DiamondConst(1, 2)
    /\ pc = "written"
    /\ Len(stream.code) = 8

\* ---------------------------------------------------------------------------
\* verify(): every edge once
\* ---------------------------------------------------------------------------

ReachableEdges(c) ==
    {<<b, n>> : b \in ({1} \cup After(c, 1)), n \in BBIds(c)} \cap
    {<<b, n>> \in BBIds(c) \X BBIds(c) : n \in Succs(c, b)}
EdgeAt(i) == <<verified.edges[i].from, verified.edges[i].to>>
\* Every edge reachable from the entry was taken, none twice, and verifyBB
\* was called once for the entry and once for every edge.
EveryEdgeOnce ==
    /\ \A i, j \in DOMAIN verified.edges : i # j => EdgeAt(i) # EdgeAt(j)
    /\ {EdgeAt(i) : i \in DOMAIN verified.edges} = ReachableEdges(code)
    /\ Len(verified.visits) = Len(verified.edges) + 1
\* The places in verified.edges of the two edges of a block with two
\* different successors.
TwoWay ==
    {p \in (DOMAIN verified.edges) \X (DOMAIN verified.edges) :
        /\ verified.edges[p[1]].from = verified.edges[p[2]].from
        /\ code.bbs[verified.edges[p[1]].from].next0 = verified.edges[p[1]].to
        /\ code.bbs[verified.edges[p[1]].from].next1 = verified.edges[p[2]].to
        /\ verified.edges[p[1]].to # verified.edges[p[2]].to}
StartOf(i) == verified.visits[verified.edges[i].visit]

\* C20 (as stated): verify() ends, having simulated every reachable edge once,
\* and at a block with two successors the simulation of next1 starts from the
\* register file and stack the block had when the simulation of next0
\* started.
C20_Next1SeesNothingOfNext0 ==
    (VerifyRan /\ verified.fails = {}) =>
        /\ EveryEdgeOnce
        /\ \A p \in TwoWay :
              StartOf(p[2]).reg = StartOf(p[1]).reg /\ StartOf(p[2]).stack = StartOf(p[1]).stack

\* C20 (amended): verify() ends, no edge is taken twice, and when no check
\* fails every reachable edge was taken once.  At a block with two successors
\* next0 is taken first; next1 is taken by the same call of verifyBB, from
\* the state the block's instructions left in that call, unless the block
\* was entered again while next0 was simulated: then that later call took
\* next1, from the state it had itself.
C20_EveryEdgeOnceNext1MayFollowNext0 ==
    /\ VerifyRan =>
          /\ \A i, j \in DOMAIN verified.edges : i # j => EdgeAt(i) # EdgeAt(j)
          /\ Len(verified.visits) <= Len(verified.edges) + 1
          /\ Len(verified.edges) <= Cardinality(ReachableEdges(code))
    /\ (VerifyRan /\ verified.fails = {}) =>
          /\ EveryEdgeOnce
          /\ \A p \in TwoWay :
                /\ p[1] < p[2]
                /\ verified.edges[p[1]].visit <= verified.edges[p[2]].visit
                /\ StartOf(p[2]).bb = verified.edges[p[2]].from
                /\ verified.edges[p[2]].visit # verified.edges[p[1]].visit =>
                      \E i \in p[1]..(p[2] - 1) :
                          /\ verified.edges[i].to = verified.edges[p[2]].from
                          /\ i + 1 = verified.edges[p[2]].visit

C20_Witness ==
    /\ pc = "verified"
    /\ HasLongerLoop(code)
    /\ \E p \in TwoWay :
          /\ verified.edges[p[2]].visit # verified.edges[p[1]].visit
          /\ StartOf(p[2]).reg # StartOf(p[1]).reg

\* ---------------------------------------------------------------------------
\* the liveness records at the fixed point
\* ---------------------------------------------------------------------------

FixedPoint == pc = "liveness" /\ todo = {}
DefinedIn(c, v, b) == \E k \in DOMAIN c.bbs[b].instrs : c.bbs[b].instrs[k] = v
\* The positions (from 0) of the instructions of b that have v as an argument.
UsePositions(c, v, b) ==
    {k - 1 : k \in {j \in DOMAIN c.bbs[b].instrs : v \in Range(c.ins[c.bbs[b].instrs[j]].args)}}
NonPhiUsePositions(c, v, b) ==
    {u \in UsePositions(c, v, b) : ~IsPhi(c.ins, c.bbs[b].instrs[u + 1])}
Highest(S) == CHOOSE x \in S : \A y \in S : y <= x
LiveRecords == {vb \in (DOMAIN livenessInterval) \X BBIds(code) : livenessInterval[vb[1]][vb[2]].live}
\* The blocks at whose end v is read by a phi: the input blocks of its uses
\* by phis.
PhiInputBlocks(c, v) ==
    {c.ins[u[1]].inp[u[2]] : u \in {x \in UsesOf(c, v) : IsPhi(c.ins, x[1])}}

PhiUsePositions(c, v, b) == UsePositions(c, v, b) \ NonPhiUsePositions(c, v, b)
RecordRules(v, b, r) ==
    /\ r.begin = IF DefinedIn(code, v, b) THEN IndexIn(code, b, v) - 1 ELSE 0
    /\ r.end = IF v \in LiveOutOf(liveAtEnd, b) THEN Size(code, b)
               ELSE Highest(UsePositions(code, v, b))
    /\ r.begin <= r.end
Covers(r, u) == r.begin <= u /\ u <= r.end
ReadAtEndOfInputBlocks ==
    \A v \in AllInstrs(code) : \A b \in PhiInputBlocks(code, v) :
        /\ v \in DOMAIN livenessInterval
        /\ livenessInterval[v][b].live
        /\ livenessInterval[v][b].end = Size(code, b)

\* C21: at the fixed point every live record [begin, end] of a value v in a
\* block b has begin at v's definition if that is in b and at 0 otherwise,
\* end at the size of b if v is live-out of b and at v's last use in b
\* otherwise, begin <= end, and it covers every position of b at which v is
\* live, the position of a phi of b that reads v included, also when v is
\* defined later in b (a self-looping block).
C21_RecordsAtFixedPoint ==
    FixedPoint =>
        /\ \A vb \in LiveRecords :
              LET r == livenessInterval[vb[1]][vb[2]]
              IN /\ RecordRules(vb[1], vb[2], r)
                 /\ \A u \in UsePositions(code, vb[1], vb[2]) : Covers(r, u)
        /\ ReadAtEndOfInputBlocks

\* C21 (amended): the rules for begin and end hold; the record covers every
\* position of b where an instruction other than a phi uses v, the end of b
\* when a phi reads v along an edge from b, and the position of a phi of b
\* that reads v unless v is defined in b: then the record begins at the
\* definition, after the phi, and the phi's position is outside it.
C21_RecordsCoverAllButEarlierPhi ==
    FixedPoint =>
        /\ \A vb \in LiveRecords :
              LET r == livenessInterval[vb[1]][vb[2]]
              IN /\ RecordRules(vb[1], vb[2], r)
                 /\ \A u \in NonPhiUsePositions(code, vb[1], vb[2]) : Covers(r, u)
                 /\ \A u \in PhiUsePositions(code, vb[1], vb[2]) :
                       IF DefinedIn(code, vb[1], vb[2])
                       THEN u < r.begin /\ r.end = Size(code, vb[2])
                       ELSE Covers(r, u)
        /\ ReadAtEndOfInputBlocks

\* A fixed point where a phi of a self-looping block reads a value defined
\* later in that block, and one where a value is defined and last used, by an
\* instruction other than a phi, in the middle of a block.
C21_Witness ==
    /\ FixedPoint
    /\ \E vb \in LiveRecords :
          /\ DefinedIn(code, vb[1], vb[2])
          /\ PhiUsePositions(code, vb[1], vb[2]) # {}
    /\ \E vb \in LiveRecords :
          /\ DefinedIn(code, vb[1], vb[2])
          /\ vb[1] \notin LiveOutOf(liveAtEnd, vb[2])
          /\ NonPhiUsePositions(code, vb[1], vb[2]) # {}
    /\ \E vb \in LiveRecords : ~DefinedIn(code, vb[1], vb[2])

\* ------------------------------------------------ Liveness::interfere
MaxPos == MaxBody + 2
Ranges == {r \in [live : BOOLEAN, begin : 0..MaxPos, end : 0..MaxPos] : r.begin <= r.end}
\* Two closed ranges share a position exactly when they share one of their
\* first positions.
Intersect(a, b) ==
    \E x \in {a.begin, b.begin} : a.begin <= x /\ x <= a.end /\ b.begin <= x /\ x <= b.end
Known == DOMAIN livenessInterval
LiveAt(v, b) == livenessInterval[v][b].live
Touching(a, b) == a.end = b.begin /\ a.begin < b.begin

\* C22: interfere is true exactly when in some block both records are live and
\* their closed ranges [begin, end] intersect; equal begins interfere, and so
\* does a range that ends where the other begins.  Stated of every pair of
\* computed intervals, and of every pair of ranges up to MaxPos when
\* computeLiveness hands its intervals over.
C22_InterfereIsClosedRangeIntersection ==
    /\ FixedPoint =>
          \A a \in Ranges : \A b \in Ranges :
              /\ rangesOverlap(a, b) <=> Intersect(a, b)
              /\ a.begin = b.begin => rangesOverlap(a, b)
              /\ a.end = b.begin => rangesOverlap(a, b)
              /\ interfere(<<a>>, <<b>>) <=> (a.live /\ b.live /\ Intersect(a, b))
    /\ \A v \in Known : \A w \in Known :
          interfere(livenessInterval[v], livenessInterval[w]) <=>
              \E b \in BBIds(code) :
                  /\ LiveAt(v, b) /\ LiveAt(w, b)
                  /\ Intersect(livenessInterval[v][b], livenessInterval[w][b])

\* At the fixed point two values interfere only because one's range ends at
\* the position where the other's begins, and two others do not interfere
\* although both are live somewhere.
C22_Witness ==
    /\ FixedPoint
    /\ \E v \in Known : \E w \in Known :
          /\ interfere(livenessInterval[v], livenessInterval[w])
          /\ \A b \in BBIds(code) :
                (LiveAt(v, b) /\ LiveAt(w, b)) =>
                    /\ livenessInterval[v][b].begin # livenessInterval[w][b].begin
                    /\ \/ Touching(livenessInterval[v][b], livenessInterval[w][b])
                       \/ ~Intersect(livenessInterval[v][b], livenessInterval[w][b])
    /\ \E v \in Known : \E w \in Known :
          /\ ~interfere(livenessInterval[v], livenessInterval[w])
          /\ \E b \in BBIds(code) : LiveAt(v, b) /\ LiveAt(w, b)

\* ------------------------------------- phi inputs and the live-out sets
PhiOnly(v) ==
    /\ UsesOf(code, v) # {}
    /\ \A u \in UsesOf(code, v) : IsPhi(code.ins, u[1])
\* The blocks for which a phi of block bb takes v as its incoming value.
ReadFrom(v, bb) ==
    {code.ins[u[1]].inp[u[2]] :
        u \in {x \in UsesOf(code, v) : IsPhi(code.ins, x[1]) /\ BBofInstr(code, x[1]) = bb}}
PhiOnlyValues == {v \in AllInstrs(code) : PhiOnly(v)}
PredsOf(bb) == Range(immediatePredecessors(code, bb))

\* C23: a value used only as the incoming value of a phi for block P is
\* live-out of P and of no other immediate predecessor of the phi's block
\* unless that predecessor dominates P; the entry-side input of the phi of a
\* loop header is not live-out of the latch.
C23_LiveOutOfInputBlockOrItsDominators ==
    FixedPoint =>
        \A v \in PhiOnlyValues : \A bb \in BBIds(code) : \A P \in ReadFrom(v, bb) :
            /\ v \in LiveOutOf(liveAtEnd, P)
            /\ \A Q \in PredsOf(bb) \ {P} :
                  v \in LiveOutOf(liveAtEnd, Q) => Dominates(code, Q, P)

\* At the fixed point the value is live-out of P and of every immediate
\* predecessor of the phi's block that comes after P.
LiveOutAfterInputBlock ==
    \A v \in PhiOnlyValues : \A bb \in BBIds(code) : \A P \in ReadFrom(v, bb) :
        \A Q \in PredsOf(bb) :
            (Q = P \/ isPredecessor(code, P, Q)) => v \in LiveOutOf(liveAtEnd, Q)
\* An iteration for block bb adds such a value to the live-out set of an
\* immediate predecessor Q of bb only: when a phi of bb reads it from P and Q
\* is P or comes after P, or when it is live through bb.
AddedOnlyAfterInputBlock ==
    (pc = "liveness" /\ pc' = "liveness") =>
        \E bb \in todo :
            /\ \A x \in todo \ {bb} : <<x, bb>> \notin addrLess
            /\ \A Q \in DOMAIN liveAtEnd' :
                  \A v \in liveAtEnd'[Q] \ LiveOutOf(liveAtEnd, Q) :
                      PhiOnly(v) =>
                          /\ Q \in PredsOf(bb)
                          /\ \/ \E P \in ReadFrom(v, bb) : Q = P \/ isPredecessor(code, P, Q)
                             \/ v \in LiveOutOf(liveAtEnd, bb) /\ ~DefinedIn(code, v, bb)

\* C23 (amended): mergePhiInp adds the value to the live-out set of P and of
\* every immediate predecessor of the phi's block that P is a (transitive)
\* predecessor of, whether or not it dominates P, and to no other for that
\* phi; the entry-side input of the phi of a loop header is live-out of the
\* latch.
C23_LiveOutOfInputBlockAndBlocksAfterIt ==
    /\ [](FixedPoint => LiveOutAfterInputBlock)
    /\ [][AddedOnlyAfterInputBlock]_vars

\* A fixed point for a loop: the input read from P is live-out of another
\* predecessor Q that comes after P and does not dominate it, and some input
\* is not live-out of a predecessor that its block does not come before.
C23_Witness ==
    /\ FixedPoint
    /\ \E v \in PhiOnlyValues : \E bb \in BBIds(code) : \E P \in ReadFrom(v, bb) :
          \E Q \in PredsOf(bb) \ {P} :
              /\ isPredecessor(code, P, Q)
              /\ ~Dominates(code, Q, P)
              /\ v \in LiveOutOf(liveAtEnd, Q)
    /\ \E v \in PhiOnlyValues : \E bb \in BBIds(code) : \E P \in ReadFrom(v, bb) :
          \E Q \in PredsOf(bb) \ {P} :
              /\ ~isPredecessor(code, P, Q)
              /\ v \notin LiveOutOf(liveAtEnd, Q)

\* ---------------------------------------------------------- the phi rule
\* Every input of the phi at index j of bb is the j-th instruction from the
\* end of its block, and that block falls through to bb.
InputsAtEnd(c, bb, j) ==
    LET phi == c.bbs[bb].instrs[j]
    IN \A a \in DOMAIN c.ins[phi].args :
          LET in == c.ins[phi].inp[a]
          IN /\ c.bbs[in].next0 = bb
             /\ Size(c, in) >= j
             /\ c.bbs[in].instrs[Size(c, in) - j + 1] = c.ins[phi].args[a]
PhiRule(c, bb, j) ==
    \A k \in 1..j : IsPhi(c.ins, c.bbs[bb].instrs[k]) /\ InputsAtEnd(c, bb, k)
OnStackIn(al, v) == v \in DOMAIN al /\ al[v] = stackSlot
WithInputs(c, phi) == {phi} \cup Range(c.ins[phi].args)
RuledIn(c, bb) == {j \in 1..Size(c, bb) : PhiRule(c, bb, j)}

\* C24: the phi rule marks the j-th instruction of a block and all its inputs
\* STACK if and only if instructions 1..j are phis, the phis before it were
\* marked, and every input of phi j is the j-th instruction from the end of a
\* block whose next0 is the phi's block; the first phi that fails stops the
\* sweep.  Stated of the sweep over every block of the code as lowered and of
\* the code before toCSSA, and of the allocation it leaves for the phis.
C24_PhiRuleMarksExactlyTheLeadingRun ==
    StackAllocationRan =>
        /\ \A c \in {before, code} : \A bb \in BBIds(c) :
              LET al == StackPhis(c, <<>>, bb, 1)
              IN /\ DOMAIN al = UNION {WithInputs(c, c.bbs[bb].instrs[j]) : j \in RuledIn(c, bb)}
                 /\ \A v \in DOMAIN al : al[v] = stackSlot
                 /\ \A j \in 1..Size(c, bb) : \A k \in 1..(j - 1) :
                       (j \in RuledIn(c, bb) /\ IsPhi(c.ins, c.bbs[bb].instrs[k])) =>
                           k \in RuledIn(c, bb)
        /\ \A bb \in BBIds(code) : \A j \in 1..Size(code, bb) :
              IsPhi(code.ins, code.bbs[bb].instrs[j]) =>
                  /\ OnStackIn(allocation, code.bbs[bb].instrs[j]) <=> PhiRule(code, bb, j)
                  /\ PhiRule(code, bb, j) =>
                        \A v \in Range(code.ins[code.bbs[bb].instrs[j]].args) :
                            OnStackIn(allocation, v)

\* The sweep marked a second phi of a block; and in another run it stopped at
\* a first phi that fails although the second phi's own inputs are in place.
C24_WitnessSecondPhi ==
    /\ StackAllocationRan
    /\ \E bb \in BBIds(before) :
          /\ 2 \in RuledIn(before, bb)
          /\ OnStackIn(StackPhis(before, <<>>, bb, 1), before.bbs[bb].instrs[2])
C24_WitnessSweepStopped ==
    /\ StackAllocationRan
    /\ \E bb \in BBIds(before) :
          /\ Size(before, bb) >= 2
          /\ IsPhi(before.ins, before.bbs[bb].instrs[1])
          /\ IsPhi(before.ins, before.bbs[bb].instrs[2])
          /\ ~InputsAtEnd(before, bb, 1)
          /\ InputsAtEnd(before, bb, 2)
          /\ ~OnStackIn(StackPhis(before, <<>>, bb, 1), before.bbs[bb].instrs[2])

\* ------------------------------------------- the in-block stack simulation
\* The allocation and the deque when instruction k of the n-th visited block
\* of c is reached.
RECURSIVE WindowBefore(_, _, _)
WindowBefore(c, n, k) ==
    LET bb == VisitOrder(c)[n]
    IN IF k = 1
       THEN [al |-> StackPhis(c, StackAllocBlocks(c, <<>>, SubSeq(VisitOrder(c), 1, n - 1)), bb, 1),
             stack |-> <<>>]
       ELSE LET i == c.bbs[bb].instrs[k - 1]
                t1 == tryLoadingArgsFromStack(c, WindowBefore(c, n, k - 1), i)
            IN IF staysOnStack(c, t1.al, i) THEN [t1 EXCEPT !.stack = Append(@, i)] ELSE t1
PosIn(stack, v) == CHOOSE k \in DOMAIN stack : stack[k] = v
\* The arguments are all on the deque, in their order.
AllFound(stack, args) ==
    /\ Len(args) >= 1
    /\ \A j \in DOMAIN args : args[j] \in Range(stack)
    /\ \A j \in 1..(Len(args) - 1) : PosIn(stack, args[j]) < PosIn(stack, args[j + 1])
Steps(c) == {nk \in (DOMAIN VisitOrder(c)) \X (1..Len(c.ins)) : nk[2] <= Size(c, VisitOrder(c)[nk[1]])}
InstrAt(c, nk) == c.bbs[VisitOrder(c)[nk[1]]].instrs[nk[2]]
\* What instruction nk takes off the deque without it being an argument.
DroppedAt(c, nk) ==
    LET t == WindowBefore(c, nk[1], nk[2])
        t1 == tryLoadingArgsFromStack(c, t, InstrAt(c, nk))
    IN (Range(t.stack) \ Range(t1.stack)) \ Range(c.ins[InstrAt(c, nk)].args)
Dropped(c) == UNION {DroppedAt(c, nk) : nk \in Steps(c)}
TryLoadingRule(c, nk) ==
    LET t == WindowBefore(c, nk[1], nk[2])
        args == c.ins[InstrAt(c, nk)].args
        t1 == tryLoadingArgsFromStack(c, t, InstrAt(c, nk))
    IN /\ \A k \in DOMAIN t.stack : \A l \in DOMAIN t.stack : t.stack[k] = t.stack[l] => k = l
       /\ IF AllFound(t.stack, args)
          THEN /\ t1.stack = SubSeq(t.stack, 1, PosIn(t.stack, args[1]) - 1)
               /\ \A j \in DOMAIN args : OnStackIn(t1.al, args[j])
               /\ \A v \in DOMAIN t1.al \ Range(args) : v \in DOMAIN t.al /\ t1.al[v] = t.al[v]
               /\ \A v \in DroppedAt(c, nk) : v \notin DOMAIN t1.al
          ELSE t1 = t

\* C25: when all arguments of an instruction are found on the simulated deque
\* they are marked STACK and the deque is cut below the deepest of them; what
\* was between them is dropped and not marked, and is never allocated STACK;
\* when an argument is not found nothing is marked and the deque stays.
C25_DroppedValuesBecomeLocals ==
    StackAllocationRan =>
        /\ \A c \in {before, code} : \A nk \in Steps(c) : TryLoadingRule(c, nk)
        /\ \A v \in Dropped(before) : ~OnStackIn(computeStackAllocation(before), v)
        /\ \A v \in Dropped(code) :
              /\ ~OnStackIn(allocation, v)
              /\ pc = "allocated" => (v \in DOMAIN allocation /\ allocation[v] >= 1)

\* The deque is [xxx, A, B, C] and the arguments are [A, C]: A and C are on
\* the stack, B is in a numbered slot, and xxx is matched later.
C25_Witness ==
    /\ pc = "allocated"
    /\ \E nk \in Steps(code) :
          LET t == WindowBefore(code, nk[1], nk[2])
              args == code.ins[InstrAt(code, nk)].args
          IN /\ Len(t.stack) = 4 /\ Len(args) = 2
             /\ args = <<t.stack[2], t.stack[4]>>
             /\ tryLoadingArgsFromStack(code, t, InstrAt(code, nk)).stack = <<t.stack[1]>>
             /\ OnStackIn(allocation, t.stack[2]) /\ OnStackIn(allocation, t.stack[4])
             /\ allocation[t.stack[3]] >= 1
             /\ OnStackIn(allocation, t.stack[1])

\* ------------------------------------------- the dominance-order phase
AllocationRan ==
    pc \in {"allocated", "verified", "verifyFailed", "emitted", "emitFailed", "written", "writeFailed"}
Allocated == pc = "allocated"
EagerOrder == InstrsInOrder(code, DomPreorder(code, <<1>>))
Precolored == PrecolorPhis(code, livenessInterval, computeStackAllocation(code),
                           InstrsInOrder(code, VisitOrder(code)))
\* The allocations when the phase reaches the first, second, ... instruction
\* of instrs, starting from al.
RECURSIVE EagerTrace(_, _)
EagerTrace(al, instrs) ==
    IF instrs = <<>> THEN <<>>
    ELSE <<al>> \o EagerTrace(EagerSlots(code, livenessInterval, al, <<Head(instrs)>>),
                              Tail(instrs))
Numbered(al, v) == v \in DOMAIN al /\ al[v] >= 1
NooneInterferes(li, al, s, v) == \A o \in DOMAIN al : al[o] = s => ~interfere(li[o], li[v])
\* The slot the rule gives v under the allocation al.
RuleSlot(li, al, v) ==
    LET args == code.ins[v].args
    IN IF Len(args) > 0 /\ IsInstruction(args[1]) /\ Numbered(al, args[1])
             /\ NooneInterferes(li, al, al[args[1]], v)
       THEN al[args[1]]
       ELSE CHOOSE s \in 1..(Cardinality(DOMAIN al) + 1) :
               /\ NooneInterferes(li, al, s, v)
               /\ \A t \in 1..(s - 1) : ~NooneInterferes(li, al, t, v)
\* The phase gives v a slot: v has none under al and has a liveness record.
HasTurn(al, v) == v \notin DOMAIN al /\ v \in DOMAIN livenessInterval
FollowsRule(li, al, v) == EagerSlots(code, li, al, <<v>>) = Assign(al, v, RuleSlot(li, al, v))
\* The intervals with the record of value o in block b ended before position pos.
EndedBefore(li, o, b, pos) ==
    [li EXCEPT ![o][b].end = IF li[o][b].begin < pos THEN pos - 1 ELSE li[o][b].end]
\* The intervals where the first argument of v is no longer live at v.
FirstArgEnded(v) ==
    LET b == BBofInstr(code, v)
        args == code.ins[v].args
    IN IF Len(args) > 0 /\ IsInstruction(args[1]) /\ args[1] \in DOMAIN livenessInterval
       THEN EndedBefore(livenessInterval, args[1], b, IndexIn(code, b, v) - 1)
       ELSE livenessInterval
HintTaken(li, al, v) ==
    /\ HasTurn(al, v)
    /\ HintOf(code, al, v) >= 1
    /\ EagerSlots(code, li, al, <<v>>)[v] = HintOf(code, al, v)
    /\ \E t \in 1..(HintOf(code, al, v) - 1) : NooneInterferes(li, al, t, v)
HintRejected(li, al, v) ==
    /\ HasTurn(al, v)
    /\ HintOf(code, al, v) >= 1
    /\ EagerSlots(code, li, al, <<v>>)[v] # HintOf(code, al, v)

\* C26: in the dominance-order phase an unassigned value with a liveness
\* record gets the slot of its first argument when that is an instruction in
\* a numbered slot that nothing interfering with the value is in, and the
\* smallest slot >= 1 that nothing interfering with it is in otherwise.
\* Stated of every turn of the phase under the computed intervals, and of
\* the same turn under intervals in which the range of the first argument
\* ends before the value.
C26_HintOrSmallestFreeSlot ==
    Allocated =>
        LET order == EagerOrder
            trace == EagerTrace(Precolored, order)
        IN \A k \in DOMAIN order :
              HasTurn(trace[k], order[k]) =>
                  /\ FollowsRule(livenessInterval, trace[k], order[k])
                  /\ allocation[order[k]] = RuleSlot(livenessInterval, trace[k], order[k])
                  /\ FollowsRule(FirstArgEnded(order[k]), trace[k], order[k])

\* A turn where the hint is a numbered slot and the value gets another, the
\* smallest free one; and, for intervals with the first argument's range
\* ended, a turn where the hint is taken although a smaller slot is free.
C26_Witness ==
    /\ Allocated
    /\ LET order == EagerOrder
           trace == EagerTrace(Precolored, order)
       IN /\ \E k \in DOMAIN order : HintRejected(livenessInterval, trace[k], order[k])
          /\ \E k \in DOMAIN order : HintTaken(FirstArgEnded(order[k]), trace[k], order[k])

\* ------------------------------------------- operands and their slots
NumberedOperands(i) ==
    {o \in Range(code.ins[i].args) : IsInstruction(o) /\ Numbered(allocation, o)}
NonPhisInSlots ==
    {i \in AllInstrs(code) : ~IsPhi(code.ins, i) /\ Numbered(allocation, i)}
\* The record of o in the block of i contains the position of i.
LiveAtUse(o, i) ==
    LET b == BBofInstr(code, i)
        r == livenessInterval[o][b]
    IN r.live /\ r.begin <= IndexIn(code, b, i) - 1 /\ IndexIn(code, b, i) - 1 <= r.end

\* C29: a non-phi instruction in a numbered slot never has the slot of one of
\* its operands that is in a numbered slot: in its block the operand's range
\* contains the instruction's position, the two interfere, and the hint of
\* the first argument is rejected at every turn of the dominance-order phase.
C29_NeverTheSlotOfAnOperand ==
    Allocated =>
        /\ \A i \in NonPhisInSlots : \A o \in NumberedOperands(i) :
              /\ allocation[i] # allocation[o]
              /\ LiveAtUse(o, i)
              /\ interfere(livenessInterval[o], livenessInterval[i])
        /\ LET order == EagerOrder
               trace == EagerTrace(Precolored, order)
           IN \A k \in DOMAIN order :
                 (HasTurn(trace[k], order[k]) /\ HintOf(code, trace[k], order[k]) >= 1) =>
                     /\ ~slotIsAvailable(livenessInterval, trace[k],
                                         HintOf(code, trace[k], order[k]), order[k])
                     /\ allocation[order[k]] # HintOf(code, trace[k], order[k])

\* An instruction took a slot other than the numbered slot of its first
\* argument, and that was the last use of the argument: the argument's range
\* ends at the position where the instruction's begins.
C29_Witness ==
    /\ Allocated
    /\ LET order == EagerOrder
           trace == EagerTrace(Precolored, order)
       IN \E k \in DOMAIN order :
             /\ HintRejected(livenessInterval, trace[k], order[k])
             /\ LET v == order[k]
                    o == code.ins[v].args[1]
                    b == BBofInstr(code, v)
                IN /\ livenessInterval[o][b].end = livenessInterval[v][b].begin
                   /\ allocation[v] # allocation[o]

\* ---------------------------------------------------- storing the result
hasResult(i) == ~IsVoid(code.ins, i) /\ ~IsPhi(code.ins, i)
Emitted == EmitterRan /\ stream.failed = {}
\* What follows the opcode of instruction i in the stream.
ResultHandling(i) ==
    IF ~hasResult(i) THEN <<>>
    ELSE IF i \notin DOMAIN allocation THEN <<BC("pop", 0)>>
    ELSE IF allocation[i] = stackSlot THEN <<>>
    ELSE <<BC("stloc", allocation[i] - 1)>>
AfterOpcode(i) == Emit(NewCodeStream, BC("nop", 0))
Unallocated == {i \in AllInstrs(code) : hasResult(i) /\ i \notin DOMAIN allocation}
StoredIn(n) == {i \in AllInstrs(code) : hasResult(i) /\ Numbered(allocation, i) /\ allocation[i] = n + 1}
StoresOf(cs) == {k \in DOMAIN cs.code : cs.code[k].op = "stloc"}

\* C27: after the opcode of an instruction with a result (not void, not a
\* phi) the emitter emits pop when the instruction has no allocation,
\* nothing when it is on the stack, and stloc slot - 1 otherwise; for a void
\* instruction and for a phi it emits nothing.  In the emitted code there is
\* one pop for each unallocated result and one stloc n for each result kept
\* in slot n + 1, and no other store.
C27_ResultHandling ==
    Emitted =>
        /\ \A i \in AllInstrs(code) :
              StoreResult(code, allocation, AfterOpcode(i), i).code =
                  AfterOpcode(i).code \o ResultHandling(i)
        /\ TimesIn(stream, BC("pop", 0)) = Cardinality(Unallocated)
        /\ \A k \in StoresOf(stream) : StoredIn(stream.code[k].imm) # {}
        /\ \A i \in AllInstrs(code) : hasResult(i) /\ Numbered(allocation, i) =>
              TimesIn(stream, BC("stloc", allocation[i] - 1)) =
                  Cardinality(StoredIn(allocation[i] - 1))

\* Code was emitted for a result without allocation, for one on the stack
\* and for one in a numbered slot, and for a phi.
C27_Witness ==
    /\ Emitted
    /\ Unallocated # {}
    /\ \E i \in AllInstrs(code) : hasResult(i) /\ OnStackIn(allocation, i)
    /\ \E i \in AllInstrs(code) : hasResult(i) /\ Numbered(allocation, i)
    /\ \E i \in AllInstrs(code) : IsPhi(code.ins, i)

\* ------------------------------------------- writeCode and removed nops
Written == pc = "written"
\* The stream cs with a nop put in front of the bytecodes whose index is in
\* K, after the labels that stand there: out is the stream so far, k the
\* index of the next bytecode of cs and at its offset in cs.
RECURSIVE WithNopsFrom(_, _, _, _, _)
WithNopsFrom(cs, K, k, at, out) ==
    IF k > Len(cs.code) THEN out
    ELSE LET here == IF at \in DOMAIN cs.labels
                     THEN [out EXCEPT !.labels = (out.pos :> cs.labels[at]) @@ @]
                     ELSE out
             nop == IF k \in K THEN Emit(here, BC("nop", 0)) ELSE here
             next == Emit(nop, cs.code[k])
         IN Strict(next, WithNopsFrom(cs, K, k + 1, at + BCSize(cs.code[k]), next))
WithNops(cs, K) == WithNopsFrom(cs, K, 1, 0, [NewCodeStream EXCEPT !.nextLabel = cs.nextLabel])
NopPlaces(cs) ==
    {{k} : k \in DOMAIN cs.code} \cup {{k, k + 1} : k \in DOMAIN cs.code} \cup {DOMAIN cs.code, {}}
Retained(cs) == {k \in DOMAIN cs.code : cs.code[k].op # "nop"}
OffsetOf(cs, k) == SumOver(1..(k - 1), [j \in 1..(k - 1) |-> BCSize(cs.code[j])])
OutOffsetOf(cs, k) ==
    SumOver(Retained(cs) \cap (1..(k - 1)), [j \in 1..(k - 1) |-> BCSize(cs.code[j])])
FirstRetainedFrom(cs, k) ==
    CHOOSE r \in Retained(cs) : r >= k /\ \A q \in Retained(cs) : q >= k => r <= q
\* The index of the bytecode at whose offset label l stands.
LabelIndex(cs, l) ==
    CHOOSE k \in DOMAIN cs.code :
        OffsetOf(cs, k) \in DOMAIN cs.labels /\ l \in Range(cs.labels[OffsetOf(cs, k)])
TargetOf(cs, l) == OutOffsetOf(cs, FirstRetainedFrom(cs, LabelIndex(cs, l)))
JumpsOf(cs) == {k \in DOMAIN cs.code : cs.code[k].op \in {"br", "brfalse"}}
ExpectedJumps(cs) ==
    [pos \in {OutOffsetOf(cs, k) + 1 : k \in JumpsOf(cs)} |->
        LET k == CHOOSE j \in JumpsOf(cs) : OutOffsetOf(cs, j) + 1 = pos
        IN TargetOf(cs, cs.code[k].imm) - pos - JmpSize]
LabelAtNop(cs) ==
    \E k \in JumpsOf(cs) : cs.code[LabelIndex(cs, cs.code[k].imm)].op = "nop"

\* C28: writeCode leaves out the nops and patches every jump: a label at
\* offset o resolves to the output offset of the first retained instruction
\* at or after o, also when a removed nop stands at o, and the value written
\* at the patch point at output offset pos is target - pos - sizeof(Jmp).
\* Stated of the emitted stream with nops put in front of one bytecode, of
\* two neighbours, of every bytecode, and of none: the jumps written are
\* those of the stream without nops.
C28_NopsRemovedAndJumpsPatched ==
    Written =>
        \A K \in NopPlaces(stream) :
            LET cs == WithNops(stream, K)
            IN /\ writeCode(cs).failed = {}
               /\ writeCode(cs).jumps = ExpectedJumps(cs)
               /\ writeCode(cs).jumps = written.jumps
               /\ cs.nops = Cardinality(DOMAIN cs.code \ Retained(cs))
               /\ Cardinality(Retained(cs)) = Len(stream.code)

\* A stream with a backward and a forward jump is written, and with a nop at
\* the position of a label that a jump names the jump is patched to the
\* instruction after the nop.
C28_Witness ==
    /\ Written
    /\ \E pos \in DOMAIN written.jumps : written.jumps[pos] < 0
    /\ \E pos \in DOMAIN written.jumps : written.jumps[pos] > 0
    /\ \E K \in NopPlaces(stream) :
          /\ LabelAtNop(WithNops(stream, K))
          /\ writeCode(WithNops(stream, K)).jumps = written.jumps

\* ------------------------------------------------------- the locals count
\* What compileCode returns and finalizeCode is given.
localsCnt == slots(allocation)
NumberedSlots == {allocation[v] : v \in DOMAIN allocation} \ {stackSlot}
LocalAccesses == {k \in DOMAIN stream.code : stream.code[k].op \in {"ldloc", "stloc"}}

\* C30: the locals count is the largest numbered slot of the allocation (0
\* when there is none), every slot from 1 to it holds some value, and every
\* ldloc and stloc the emitter emits has an index (slot - 1) below it.
C30_LocalsCountIsLargestSlot ==
    AllocationRan =>
        /\ localsCnt \in NumberedSlots \cup {0}
        /\ \A s \in NumberedSlots : 1 <= s /\ s <= localsCnt
        /\ NumberedSlots = 1..localsCnt
        /\ EmitterRan =>
              \A k \in LocalAccesses :
                  0 <= stream.code[k].imm /\ stream.code[k].imm < localsCnt

\* Code with loads and stores of two locals or more was emitted, the highest
\* and the lowest of them among them, and some value is on the stack.
C30_Witness ==
    /\ Emitted
    /\ localsCnt >= 2
    /\ \E k \in LocalAccesses : stream.code[k].imm = localsCnt - 1
    /\ \E k \in LocalAccesses : stream.code[k].imm = 0
    /\ \E v \in DOMAIN allocation : allocation[v] = stackSlot

====
